---- MODULE Spec2Model ----
(***************************************************************************)
(* Creative tracker: the report parser (src/src/utils/parseExcel.ts), the  *)
(* application state and its upload / label handlers (src/src/App.tsx),    *)
(* the performance view (src/src/components/PerformanceDashboard.tsx) and  *)
(* the competitive A/B view (src/src/components/ABTestView.tsx).           *)
(*                                                                         *)
(* Conventions.                                                            *)
(*  - A JavaScript string is a sequence of one-character strings, so that  *)
(*    trim, toLowerCase, toUpperCase, template concatenation and the       *)
(*    regular expressions act on characters.  '' is <<>>.                  *)
(*  - A JavaScript number is an integer here (currency in whole units).    *)
(*    A quotient a / b is the pair <<a, b>> with b > 0, compared by cross  *)
(*    multiplication; x * 100 multiplies the numerator.                    *)
(*  - A Map is a sequence of entries in insertion order.                   *)
(***************************************************************************)
EXTENDS Integers, Sequences, FiniteSets, TLC

VARIABLES
    assets,        \* App.tsx:23   useState<BrandAsset[]>
    campaignData,  \* App.tsx:24   useState<CampaignData[]>
    error,         \* App.tsx:26   useState<string | null>
    warnings,      \* App.tsx:27   useState<string[]>
    inflight,      \* handleFileUpload calls suspended at `await parseExcelFile`
    hist,          \* what the last handler that ran was given and saw
    abGroupBy,     \* ABTestView.tsx:39  useState<GroupByTarget>
    perfGroupBy,   \* PerformanceDashboard.tsx:45 useState<GroupBy>
    expandedGroups,  \* ABTestView.tsx:41  useState<Set<string>>(new Set())
    showOnlyABTests, \* ABTestView.tsx:42  useState(true)
    file,          \* the workbook handed to parseExcelFile
    parsed,        \* what parseExcelFile resolved with ("none" before it ran)
    isAuthenticated, \* AuthContext: !!user
    uploadAuth,    \* isAuthenticated as the current handleFileUpload closure holds it
    saveStatus,    \* App.tsx:29   useState<'idle' | 'saving' | 'saved' | 'error'>
    showAuthModal, \* App.tsx:28   useState(false)
    timers,        \* pending setTimeout(() => setSaveStatus('idle'), 3000)
    store,         \* the user's rows of brand_assets and campaign_data
    ops,           \* saveData calls suspended at a request to the store
    faults,        \* requests the store has answered with an error
    isSaving,      \* useDataPersistence.ts:44  useState(false)
    lastSave       \* what the last saveData call that returned was given and returned

viewState == <<expandedGroups, showOnlyABTests>>

storeVars == <<isAuthenticated, uploadAuth, saveStatus, showAuthModal, timers,
               store, ops, faults, isSaving, lastSave>>

vars == <<assets, campaignData, error, warnings, inflight, hist,
          abGroupBy, perfGroupBy, expandedGroups, showOnlyABTests, file, parsed,
          isAuthenticated, uploadAuth,
          saveStatus, showAuthModal, timers, store, ops, faults, isSaving,
          lastSave>>

(***************************************************************************)
(* Bounds of the model                                                     *)
(***************************************************************************)
MaxRecords == 3
MaxOps == 2
MaxFaults == 1

(***************************************************************************)
(* Text                                                                    *)
(***************************************************************************)
LowerLetters == <<"a","b","c","d","e","f","g","h","i","j","k","l","m",
                  "n","o","p","q","r","s","t","u","v","w","x","y","z">>
UpperLetters == <<"A","B","C","D","E","F","G","H","I","J","K","L","M",
                  "N","O","P","Q","R","S","T","U","V","W","X","Y","Z">>
Digits == {"0","1","2","3","4","5","6","7","8","9"}

Range(s) == { s[i] : i \in DOMAIN s }

\* String.prototype.toUpperCase / toLowerCase, character by character
UpperTable ==
    [c \in Range(LowerLetters) |->
        UpperLetters[CHOOSE i \in DOMAIN LowerLetters : LowerLetters[i] = c]]
LowerTable ==
    [c \in Range(UpperLetters) |->
        LowerLetters[CHOOSE i \in DOMAIN UpperLetters : UpperLetters[i] = c]]
UpperChar(c) == IF c \in DOMAIN UpperTable THEN UpperTable[c] ELSE c
LowerChar(c) == IF c \in DOMAIN LowerTable THEN LowerTable[c] ELSE c
toUpperCase(s) == [i \in DOMAIN s |-> UpperChar(s[i])]
toLowerCase(s) == [i \in DOMAIN s |-> LowerChar(s[i])]

\* [A-Z0-9] under the i flag
AlnumChars == Range(LowerLetters) \cup Range(UpperLetters) \cup Digits
IsAlnum(c) == c \in AlnumChars

\* String.prototype.trim (the only white space of the model is the blank)
RECURSIVE TrimLeft(_)
TrimLeft(s) == IF s # <<>> /\ Head(s) = " " THEN TrimLeft(Tail(s)) ELSE s
RECURSIVE TrimRight(_)
TrimRight(s) ==
    IF s # <<>> /\ s[Len(s)] = " " THEN TrimRight(SubSeq(s, 1, Len(s) - 1)) ELSE s
trim(s) == TrimRight(TrimLeft(s))

\* a || b on strings: '' is falsy
JsOr(a, b) == IF a # <<>> THEN a ELSE b

(***************************************************************************)
(* Numbers                                                                 *)
(***************************************************************************)
\* d > 0 ? n / d : 0
Quot(n, d) == IF d > 0 THEN <<n, d>> ELSE <<0, 1>>
\* a > b and a = b on quotients (denominators are positive)
QGt(a, b) == a[1] * b[2] > b[1] * a[2]
QEq(a, b) == a[1] * b[2] = b[1] * a[2]

(***************************************************************************)
(* Records                                                                 *)
(***************************************************************************)
T_Unlabeled     == <<"U","n","l","a","b","e","l","e","d">>
T_Uncategorized == <<"U","n","c","a","t","e","g","o","r","i","z","e","d">>

\* ABTestView.tsx:46-50 / PerformanceDashboard.tsx:51-57: new Map filled by
\* assets.forEach(map.set(asset.assetId, asset)), then map.get(id): the last
\* asset carrying the id, as a sequence of zero or one asset (undefined = <<>>)
assetMapGet(as, id) ==
    LET idx == { i \in DOMAIN as : as[i].assetId = id }
    IN  IF idx = {} THEN <<>>
        ELSE << as[CHOOSE i \in idx : \A j \in idx : j <= i] >>

\* asset?.creativeName and asset?.category (undefined is falsy like '')
OptCreativeName(a) == IF a = <<>> THEN <<>> ELSE a[1].creativeName
OptCategory(a)     == IF a = <<>> THEN <<>> ELSE a[1].category

(***************************************************************************)
(* Competitive (A/B) view: ABTestView.tsx                                  *)
(***************************************************************************)
MIN_SPEND_FOR_WINNER == 10
AsinLen == 10

GroupByTargets == {"adgroup", "campaign", "category", "keyword", "asin"}

TargetTypeText(t) ==
    CASE t = "adgroup"  -> <<"a","d","g","r","o","u","p">>
      [] t = "campaign" -> <<"c","a","m","p","a","i","g","n">>
      [] t = "category" -> <<"c","a","t","e","g","o","r","y">>
      [] t = "keyword"  -> <<"k","e","y","w","o","r","d">>
      [] t = "asin"     -> <<"a","s","i","n">>

\* [A-Z0-9]{10} matched at position k of s
AlnumRunAt(s, k) ==
    /\ k >= 1
    /\ k + AsinLen - 1 <= Len(s)
    /\ \A j \in k..(k + AsinLen - 1) : IsAlnum(s[j])

\* The start of capture group 1 when /(?:asin[=:]?"?)?([A-Z0-9]{10})(?:")?/i
\* is tried at position i of s, 0 when it does not match there.  The optional
\* prefix is greedy and backtracks: separator and quote taken, then only the
\* separator, then only the quote, then neither, then no prefix at all.
ExprCaptureAt(s, i) ==
    LET hasAsin == /\ i + 3 <= Len(s)
                   /\ toLowerCase(SubSeq(s, i, i + 3)) = <<"a","s","i","n">>
        j   == i + 4
        sep == j <= Len(s) /\ s[j] \in {"=", ":"}
        qAfterSep == sep /\ j + 1 <= Len(s) /\ s[j + 1] = "\""
        qNoSep    == j <= Len(s) /\ s[j] = "\""
    IN  IF hasAsin /\ qAfterSep /\ AlnumRunAt(s, j + 2) THEN j + 2
        ELSE IF hasAsin /\ sep /\ AlnumRunAt(s, j + 1) THEN j + 1
        ELSE IF hasAsin /\ qNoSep /\ AlnumRunAt(s, j + 1) THEN j + 1
        ELSE IF hasAsin /\ AlnumRunAt(s, j) THEN j
        ELSE IF AlnumRunAt(s, i) THEN i
        ELSE 0

\* String.prototype.match without the g flag: the leftmost position at which
\* the expression matches; the result is capture group 1, <<>> for null
MatchAsinExpression(s) ==
    LET hits == { i \in DOMAIN s : ExprCaptureAt(s, i) # 0 }
    IN  IF hits = {} THEN <<>>
        ELSE LET i == CHOOSE h \in hits : \A g \in hits : h <= g
                 k == ExprCaptureAt(s, i)
             IN  SubSeq(s, k, k + AsinLen - 1)

\* productTargetingId.match(/([A-Z0-9]{10})/i)
MatchAsinId(s) ==
    LET hits == { i \in DOMAIN s : AlnumRunAt(s, i) }
    IN  IF hits = {} THEN <<>>
        ELSE LET i == CHOOSE h \in hits : \A g \in hits : h <= g
             IN  SubSeq(s, i, i + AsinLen - 1)

\* lines 79-95 with the targeting id scanned first
ExtractAsin_IdFirst(campaign) ==
    LET m2 == IF campaign.productTargetingId # <<>>
              THEN MatchAsinId(campaign.productTargetingId)
              ELSE <<>>
        m1 == IF m2 = <<>> /\ campaign.productTargetingExpression # <<>>
              THEN MatchAsinExpression(campaign.productTargetingExpression)
              ELSE <<>>
    IN  IF m2 # <<>> THEN toUpperCase(m2)
        ELSE IF m1 # <<>> THEN toUpperCase(m1) ELSE <<>>

\* ABTestView.tsx:79-95: asin, <<>> for null
ExtractAsin(campaign) ==
    LET m1 == IF campaign.productTargetingExpression # <<>>
              THEN MatchAsinExpression(campaign.productTargetingExpression)
              ELSE <<>>
        a1 == IF m1 # <<>> THEN toUpperCase(m1) ELSE <<>>
        m2 == IF a1 = <<>> /\ campaign.productTargetingId # <<>>
              THEN MatchAsinId(campaign.productTargetingId)
              ELSE <<>>
    IN  IF m2 # <<>> THEN toUpperCase(m2) ELSE a1

\* ABTestView.tsx:57-107: the target of one record, <<>> when the record is
\* skipped.  matchType undefined is <<>>: its only readers coerce it with
\* `matchType || ''` (lines 109 and 348).
CategoryTarget_NoDefault(campaign, as) ==
    OptCategory(assetMapGet(as, campaign.videoAssetIds))

\* ABTestView.tsx:70-71  asset?.category || 'Uncategorized'
CategoryTarget(campaign, as) ==
    JsOr(OptCategory(assetMapGet(as, campaign.videoAssetIds)), T_Uncategorized)

ResolveTarget(campaign, groupBy, as) ==
    LET r == IF groupBy = "campaign" /\ campaign.campaignName # <<>>
             THEN << [target |-> campaign.campaignName, targetType |-> "campaign",
                      matchType |-> <<>>] >>
             ELSE IF groupBy = "adgroup" /\ campaign.adGroupName # <<>>
             THEN << [target |-> campaign.adGroupName, targetType |-> "adgroup",
                      matchType |-> <<>>] >>
             ELSE IF groupBy = "category"
             THEN << [target |-> CategoryTarget(campaign, as),
                      targetType |-> "category", matchType |-> <<>>] >>
             ELSE IF groupBy = "keyword" /\ campaign.keywordText # <<>>
             THEN << [target |-> campaign.keywordText, targetType |-> "keyword",
                      matchType |-> campaign.matchType] >>
             ELSE IF groupBy = "asin" /\ ExtractAsin(campaign) # <<>>
             THEN << [target |-> ExtractAsin(campaign), targetType |-> "asin",
                      matchType |-> <<>>] >>
             ELSE <<>>
    IN  IF r # <<>> /\ r[1].target = <<>> THEN <<>> ELSE r

\* ABTestView.tsx:109  `${targetType}:${target}:${matchType || ''}`
groupKey(t) ==
    TargetTypeText(t.targetType) \o <<":">> \o t.target \o <<":">> \o JsOr(t.matchType, <<>>)

\* ABTestView.tsx:129-141
NewCreative(campaign, as) ==
    [ creativeName |-> JsOr(OptCreativeName(assetMapGet(as, campaign.videoAssetIds)),
                            campaign.videoAssetIds),
      videoAssetId |-> campaign.videoAssetIds,
      impressions |-> 0, clicks |-> 0, spend |-> 0, sales |-> 0, orders |-> 0,
      ctr |-> <<0, 1>>, conversionRate |-> <<0, 1>>, roas |-> <<0, 1>>,
      isWinner |-> FALSE ]

\* ABTestView.tsx:146-150
AddToCreative(c, campaign) ==
    [ c EXCEPT !.impressions = @ + campaign.impressions,
               !.clicks = @ + campaign.clicks,
               !.spend = @ + campaign.spend,
               !.sales = @ + campaign.sales,
               !.orders = @ + campaign.orders ]

\* ABTestView.tsx:126-153: find or create the creative, accumulate
FoundCreatives(group, campaign) ==
    { i \in DOMAIN group.creatives :
        group.creatives[i].videoAssetId = campaign.videoAssetIds }

\* Array.prototype.find: the first match
FirstOf(found) == CHOOSE i \in found : \A j \in found : i <= j

AddToGroup_At(group, campaign, cs, at) ==
    [ group EXCEPT !.creatives = [cs EXCEPT ![at] = AddToCreative(cs[at], campaign)],
                   !.totalSpend = @ + campaign.spend,
                   !.totalImpressions = @ + campaign.impressions ]

AddToGroup_With(group, campaign, as, found) ==
    IF found = {}
    THEN AddToGroup_At(group, campaign,
                       Append(group.creatives, NewCreative(campaign, as)),
                       Len(group.creatives) + 1)
    ELSE AddToGroup_At(group, campaign, group.creatives, FirstOf(found))

AddToGroup(group, campaign, as) ==
    AddToGroup_With(group, campaign, as, FoundCreatives(group, campaign))

\* ABTestView.tsx:56-154: the body of campaignData.forEach for one record
NewGroup(t, key) ==
    [ key |-> key, target |-> t.target, targetType |-> t.targetType,
      matchType |-> t.matchType, creatives |-> <<>>, totalSpend |-> 0,
      totalImpressions |-> 0 ]

GroupStep_At(gs, at, campaign, as) ==
    [gs EXCEPT ![at] = AddToGroup(gs[at], campaign, as)]

GroupStep_Found(groups, campaign, as, t, key, found) ==
    IF found = {}
    THEN GroupStep_At(Append(groups, NewGroup(t, key)), Len(groups) + 1, campaign, as)
    ELSE GroupStep_At(groups, CHOOSE i \in found : TRUE, campaign, as)

GroupStep_Key(groups, campaign, as, t, key) ==
    GroupStep_Found(groups, campaign, as, t, key,
                    { i \in DOMAIN groups : groups[i].key = key })

GroupStep_With(groups, campaign, as, t) ==
    IF t = <<>> THEN groups
    ELSE GroupStep_Key(groups, campaign, as, t[1], groupKey(t[1]))

GroupStep(groups, campaign, groupBy, as) ==
    GroupStep_With(groups, campaign, as, ResolveTarget(campaign, groupBy, as))

RECURSIVE Accumulate(_, _, _, _)
Accumulate(groups, data, groupBy, as) ==
    IF data = <<>> THEN groups
    ELSE Accumulate(GroupStep(groups, Head(data), groupBy, as), Tail(data), groupBy, as)

\* ABTestView.tsx:162-164
Derive(c) ==
    [ c EXCEPT !.ctr = Quot(c.clicks * 100, c.impressions),
               !.conversionRate = Quot(c.orders * 100, c.clicks),
               !.roas = Quot(c.sales, c.spend) ]

\* the guard of line 167 without the minimum spend
BeatsBest_NoMinSpend(c, best) == QGt(c.roas, best[1])

\* the guard of line 167 with >= in place of >
BeatsBest_TieTakesLater(c, best) ==
    c.spend >= MIN_SPEND_FOR_WINNER /\ (QGt(c.roas, best[1]) \/ QEq(c.roas, best[1]))

\* ABTestView.tsx:167: the guard that makes a creative the best so far
\* (best = <<bestRoas, winnerId>>, winnerId null is <<>>)
BeatsBest(c, best) ==
    c.spend >= MIN_SPEND_FOR_WINNER /\ QGt(c.roas, best[1])

\* ABTestView.tsx:158-171: the scan of group.creatives.forEach
RECURSIVE ScanWinner(_, _)
ScanWinner(cs, best) ==
    IF cs = <<>> THEN best
    ELSE ScanWinner(Tail(cs),
                    IF BeatsBest(Head(cs), best)
                    THEN <<Head(cs).roas, Head(cs).videoAssetId>>
                    ELSE best)

\* lines 174-177 without the test for a competitor
MarkWinner_NoCompetitor(cs, winnerId) ==
    IF winnerId # <<>>
    THEN LET found == { i \in DOMAIN cs : cs[i].videoAssetId = winnerId }
         IN  IF found = {} THEN cs
             ELSE LET at == CHOOSE i \in found : \A j \in found : i <= j
                  IN  [cs EXCEPT ![at].isWinner = TRUE]
    ELSE cs

\* ABTestView.tsx:174-177
MarkWinner(cs, winnerId) ==
    IF winnerId # <<>> /\ Len(cs) > 1
    THEN LET found == { i \in DOMAIN cs : cs[i].videoAssetId = winnerId }
         IN  IF found = {} THEN cs
             ELSE LET at == CHOOSE i \in found : \A j \in found : i <= j
                  IN  [cs EXCEPT ![at].isWinner = TRUE]
    ELSE cs

\* ABTestView.tsx:180  creatives.sort((a, b) => b.roas - a.roas): stable
RECURSIVE InsertByRoas(_, _)
InsertByRoas(sorted, c) ==
    IF sorted = <<>> THEN <<c>>
    ELSE IF QGt(c.roas, Head(sorted).roas) THEN <<c>> \o sorted
    ELSE <<Head(sorted)>> \o InsertByRoas(Tail(sorted), c)
RECURSIVE SortByRoas(_, _)
SortByRoas(done, rest) ==
    IF rest = <<>> THEN done
    ELSE SortByRoas(InsertByRoas(done, Head(rest)), Tail(rest))

\* ABTestView.tsx:157-181
FinishGroup_With(group, derived) ==
    [ group EXCEPT !.creatives =
        SortByRoas(<<>>, MarkWinner(derived,
                                    ScanWinner(derived, << <<-1, 1>>, <<>> >>)[2])) ]

FinishGroup(group) ==
    FinishGroup_With(group,
                     [i \in DOMAIN group.creatives |-> Derive(group.creatives[i])])

\* ABTestView.tsx:53-184  useMemo(abTestGroups)
FinishAll(groups) == [i \in DOMAIN groups |-> FinishGroup(groups[i])]

abTestGroupsOf(data, as, groupBy) ==
    FinishAll(Accumulate(<<>>, data, groupBy, as))

abTestGroups == abTestGroupsOf(campaignData, assets, abGroupBy)

(***************************************************************************)
(* Performance view: PerformanceDashboard.tsx                              *)
(***************************************************************************)
PerfGroupBys == {"creative", "category"}

\* PerformanceDashboard.tsx:64-68: the key a record is aggregated under
PerfKey(campaign, groupBy, as) ==
    LET asset == assetMapGet(as, campaign.videoAssetIds)
        creativeName == JsOr(OptCreativeName(asset), T_Unlabeled)
        category     == JsOr(OptCategory(asset), T_Uncategorized)
    IN  IF groupBy = "creative" THEN creativeName ELSE category

\* PerformanceDashboard.tsx:70-85: the row created for a key not seen before
NewRow(campaign, groupBy, as) ==
    [ name |-> PerfKey(campaign, groupBy, as),
      category |-> JsOr(OptCategory(assetMapGet(as, campaign.videoAssetIds)),
                        T_Uncategorized),
      impressions |-> 0, clicks |-> 0, spend |-> 0, sales |-> 0, orders |-> 0,
      units |-> 0, ctr |-> <<0, 1>>, conversionRate |-> <<0, 1>>, cpc |-> <<0, 1>>,
      roas |-> <<0, 1>>, adCount |-> 0, ads |-> <<>> ]

\* lines 96-126 when an entry is found by the ad name alone
AddAd_ByNameOnly(ads, campaign) ==
    IF campaign.adName = <<>> THEN ads
    ELSE LET found == { i \in DOMAIN ads : ads[i].adName = campaign.adName }
         IN  IF found # {}
             THEN LET at == CHOOSE i \in found : \A j \in found : i <= j
                  IN  [ads EXCEPT ![at] =
                         [ @ EXCEPT !.impressions = @ + campaign.impressions,
                                    !.clicks = @ + campaign.clicks,
                                    !.spend = @ + campaign.spend,
                                    !.sales = @ + campaign.sales,
                                    !.orders = @ + campaign.orders ]]
             ELSE Append(ads,
                    [ adName |-> campaign.adName,
                      campaignName |-> campaign.campaignName,
                      adGroupName |-> campaign.adGroupName,
                      impressions |-> campaign.impressions,
                      clicks |-> campaign.clicks,
                      spend |-> campaign.spend,
                      sales |-> campaign.sales,
                      orders |-> campaign.orders,
                      ctr |-> <<0, 1>>, conversionRate |-> <<0, 1>>,
                      roas |-> <<0, 1>> ])

\* PerformanceDashboard.tsx:96-126: the per-ad breakdown of one row
AddAd(ads, campaign) ==
    IF campaign.adName = <<>> THEN ads
    ELSE LET found == { i \in DOMAIN ads :
                          /\ ads[i].adName = campaign.adName
                          /\ ads[i].campaignName = campaign.campaignName
                          /\ ads[i].adGroupName = campaign.adGroupName }
         IN  IF found # {}
             THEN LET at == CHOOSE i \in found : \A j \in found : i <= j
                  IN  [ads EXCEPT ![at] =
                         [ @ EXCEPT !.impressions = @ + campaign.impressions,
                                    !.clicks = @ + campaign.clicks,
                                    !.spend = @ + campaign.spend,
                                    !.sales = @ + campaign.sales,
                                    !.orders = @ + campaign.orders ]]
             ELSE Append(ads,
                    [ adName |-> campaign.adName,
                      campaignName |-> campaign.campaignName,
                      adGroupName |-> campaign.adGroupName,
                      impressions |-> campaign.impressions,
                      clicks |-> campaign.clicks,
                      spend |-> campaign.spend,
                      sales |-> campaign.sales,
                      orders |-> campaign.orders,
                      ctr |-> <<0, 1>>, conversionRate |-> <<0, 1>>,
                      roas |-> <<0, 1>> ])

\* PerformanceDashboard.tsx:87-93 and 96-126
AddToRow(row, campaign) ==
    [ row EXCEPT !.impressions = @ + campaign.impressions,
                 !.clicks = @ + campaign.clicks,
                 !.spend = @ + campaign.spend,
                 !.sales = @ + campaign.sales,
                 !.orders = @ + campaign.orders,
                 !.units = @ + campaign.units,
                 !.adCount = @ + 1,
                 !.ads = AddAd(@, campaign) ]

\* lines 63-129 when a record without an asset is skipped
AggregateStep_DropUnmatched(rows, campaign, groupBy, as) ==
    IF assetMapGet(as, campaign.videoAssetIds) = <<>> THEN rows
    ELSE LET key   == PerfKey(campaign, groupBy, as)
             found == { i \in DOMAIN rows : rows[i].name = key }
             rs == IF found = {} THEN Append(rows, NewRow(campaign, groupBy, as)) ELSE rows
             at == IF found = {} THEN Len(rs) ELSE CHOOSE i \in found : TRUE
         IN  [rs EXCEPT ![at] = AddToRow(rs[at], campaign)]

\* PerformanceDashboard.tsx:63-129: the body of campaignData.forEach
AggregateStep(rows, campaign, groupBy, as) ==
    LET key   == PerfKey(campaign, groupBy, as)
        found == { i \in DOMAIN rows : rows[i].name = key }
        rs == IF found = {} THEN Append(rows, NewRow(campaign, groupBy, as)) ELSE rows
        at == IF found = {} THEN Len(rs) ELSE CHOOSE i \in found : TRUE
    IN  [rs EXCEPT ![at] = AddToRow(rs[at], campaign)]

RECURSIVE AggregateAll(_, _, _, _)
AggregateAll(rows, data, groupBy, as) ==
    IF data = <<>> THEN rows
    ELSE AggregateAll(AggregateStep(rows, Head(data), groupBy, as),
                      Tail(data), groupBy, as)

\* PerformanceDashboard.tsx:140-142
DeriveAd(ad) ==
    [ ad EXCEPT !.ctr = Quot(ad.clicks * 100, ad.impressions),
                !.conversionRate = Quot(ad.orders * 100, ad.clicks),
                !.roas = Quot(ad.sales, ad.spend) ]

\* PerformanceDashboard.tsx:146  ads.sort((a, b) => b.spend - a.spend): stable
RECURSIVE InsertBySpend(_, _)
InsertBySpend(sorted, ad) ==
    IF sorted = <<>> THEN <<ad>>
    ELSE IF ad.spend > Head(sorted).spend THEN <<ad>> \o sorted
    ELSE <<Head(sorted)>> \o InsertBySpend(Tail(sorted), ad)
RECURSIVE SortBySpend(_, _)
SortBySpend(done, rest) ==
    IF rest = <<>> THEN done
    ELSE SortBySpend(InsertBySpend(done, Head(rest)), Tail(rest))

\* lines 132-147 with the roas taken as the units per click
DeriveRow_WrongRoas(row) ==
    [ row EXCEPT !.ctr = Quot(row.clicks * 100, row.impressions),
                 !.conversionRate = Quot(row.orders * 100, row.clicks),
                 !.cpc = Quot(row.spend, row.clicks),
                 !.roas = Quot(row.sales, row.clicks),
                 !.ads = SortBySpend(<<>>, [i \in DOMAIN row.ads |-> DeriveAd(row.ads[i])]) ]

\* PerformanceDashboard.tsx:132-147
DeriveRow(row) ==
    [ row EXCEPT !.ctr = Quot(row.clicks * 100, row.impressions),
                 !.conversionRate = Quot(row.orders * 100, row.clicks),
                 !.cpc = Quot(row.spend, row.clicks),
                 !.roas = Quot(row.sales, row.spend),
                 !.ads = SortBySpend(<<>>, [i \in DOMAIN row.ads |-> DeriveAd(row.ads[i])]) ]

\* PerformanceDashboard.tsx:60-150  useMemo(aggregatedData)
aggregatedDataOf(data, as, groupBy) ==
    LET rows == AggregateAll(<<>>, data, groupBy, as)
    IN  [i \in DOMAIN rows |-> DeriveRow(rows[i])]

aggregatedData == aggregatedDataOf(campaignData, assets, perfGroupBy)

\* PerformanceDashboard.tsx:162-174  aggregatedData.reduce
RECURSIVE ReduceTotals(_, _)
ReduceTotals(acc, rows) ==
    IF rows = <<>> THEN acc
    ELSE ReduceTotals(
           [ impressions |-> acc.impressions + Head(rows).impressions,
             clicks |-> acc.clicks + Head(rows).clicks,
             spend |-> acc.spend + Head(rows).spend,
             sales |-> acc.sales + Head(rows).sales,
             orders |-> acc.orders + Head(rows).orders,
             units |-> acc.units + Head(rows).units ],
           Tail(rows))

totalsOf(rows) ==
    ReduceTotals([impressions |-> 0, clicks |-> 0, spend |-> 0, sales |-> 0,
                  orders |-> 0, units |-> 0], rows)

\* PerformanceDashboard.tsx:176
totalRoasOf(rows) == Quot(totalsOf(rows).sales, totalsOf(rows).spend)

totalRoas == totalRoasOf(aggregatedData)

(***************************************************************************)
(* Report parser: parseExcel.ts                                            *)
(*                                                                         *)
(* A workbook is [readable, sheets]; XLSX.read throws on one that is not   *)
(* readable.  A sheet is [name, grid, objects]: grid is what               *)
(* sheet_to_json(sheet, {header: 1}) returns (rows of cells), objects what *)
(* sheet_to_json(sheet) returns (rows of <<header, cell>> pairs in column  *)
(* order).  A cell is [t, s, n]: a string s (t = "s"), a number n          *)
(* (t = "n") or undefined (t = "u").                                       *)
(***************************************************************************)
S_BrandAssets == <<"B","r","a","n","d"," ","A","s","s","e","t","s"," ","D","a","t","a"," ","(","R","e","a","d","-","o","n","l","y",")">>
S_MultiAdGroup == <<"S","B"," ","M","u","l","t","i"," ","A","d"," ","G","r","o","u","p"," ","C","a","m","p","a","i","g","n","s">>
S_SponsoredBrands == <<"S","p","o","n","s","o","r","e","d"," ","B","r","a","n","d","s"," ","C","a","m","p","a","i","g","n","s">>
H_AssetType == <<"A","s","s","e","t"," ","T","y","p","e">>
T_Video == <<"V","i","d","e","o">>
T_CustomImage == <<"C","u","s","t","o","m"," ","I","m","a","g","e">>
T_OtherImage == <<"O","t","h","e","r"," ","I","m","a","g","e">>
T_BrandLogo == <<"B","r","a","n","d"," ","L","o","g","o">>
T_ProductImage == <<"P","r","o","d","u","c","t"," ","I","m","a","g","e">>
T_VideoSpace == <<"V","i","d","e","o"," ">>

\* the column aliases of each field, in the order parseCampaignData gives them
K_videoAssetIds ==
    << <<"V","i","d","e","o"," ","A","s","s","e","t"," ","I","D","s">>,
       <<"V","i","d","e","o"," ","M","e","d","i","a"," ","I","D","s">> >>
K_campaignId ==
    << <<"C","a","m","p","a","i","g","n"," ","I","D">> >>
K_adGroupId ==
    << <<"A","d"," ","G","r","o","u","p"," ","I","D">> >>
K_adId ==
    << <<"A","d"," ","I","D">> >>
K_keywordId ==
    << <<"K","e","y","w","o","r","d"," ","I","D">> >>
K_productTargetingId ==
    << <<"P","r","o","d","u","c","t"," ","T","a","r","g","e","t","i","n","g"," ","I","D">> >>
K_productTargetingExpression ==
    << <<"P","r","o","d","u","c","t"," ","T","a","r","g","e","t","i","n","g"," ","E","x","p","r","e","s","s","i","o","n">> >>
K_campaignName ==
    << <<"C","a","m","p","a","i","g","n"," ","N","a","m","e">>,
       <<"C","a","m","p","a","i","g","n"," ","N","a","m","e"," ","(","I","n","f","o","r","m","a","t","i","o","n","a","l"," ","o","n","l","y",")">>,
       <<"C","a","m","p","a","i","g","n"," ","n","a","m","e">>,
       <<"C","a","m","p","a","i","g","n"," ","n","a","m","e"," ","(","I","n","f","o","r","m","a","t","i","o","n","a","l"," ","o","n","l","y",")">> >>
K_adGroupName ==
    << <<"A","d"," ","G","r","o","u","p"," ","N","a","m","e">>,
       <<"A","d"," ","G","r","o","u","p"," ","N","a","m","e"," ","(","I","n","f","o","r","m","a","t","i","o","n","a","l"," ","o","n","l","y",")">>,
       <<"A","d"," ","g","r","o","u","p"," ","n","a","m","e">>,
       <<"A","d"," ","g","r","o","u","p"," ","n","a","m","e"," ","(","I","n","f","o","r","m","a","t","i","o","n","a","l"," ","o","n","l","y",")">> >>
K_adName ==
    << <<"A","d"," ","N","a","m","e">>,
       <<"A","d"," ","n","a","m","e">>,
       <<"C","a","m","p","a","i","g","n"," ","N","a","m","e">>,
       <<"C","a","m","p","a","i","g","n"," ","n","a","m","e">> >>
K_keywordText ==
    << <<"K","e","y","w","o","r","d"," ","T","e","x","t">>,
       <<"K","e","y","w","o","r","d"," ","t","e","x","t">> >>
K_matchType ==
    << <<"M","a","t","c","h"," ","T","y","p","e">>,
       <<"M","a","t","c","h"," ","t","y","p","e">> >>
K_impressions ==
    << <<"I","m","p","r","e","s","s","i","o","n","s">> >>
K_clicks ==
    << <<"C","l","i","c","k","s">> >>
K_spend ==
    << <<"S","p","e","n","d">> >>
K_sales ==
    << <<"S","a","l","e","s">> >>
K_orders ==
    << <<"O","r","d","e","r","s">> >>
K_units ==
    << <<"U","n","i","t","s">> >>
K_ctr ==
    << <<"C","l","i","c","k","-","t","h","r","o","u","g","h"," ","R","a","t","e">>,
       <<"C","l","i","c","k","-","t","h","r","o","u","g","h"," ","r","a","t","e">> >>
K_conversionRate ==
    << <<"C","o","n","v","e","r","s","i","o","n"," ","R","a","t","e">>,
       <<"C","o","n","v","e","r","s","i","o","n"," ","r","a","t","e">> >>
K_acos ==
    << <<"A","C","O","S">> >>
K_cpc ==
    << <<"C","P","C">> >>
K_roas ==
    << <<"R","O","A","S">> >>

W_NoHeaderRow == "Could not find header row in Brand Assets Data sheet"
W_NoVideoAds  == "Found Sponsored Brands data but no video ads - you may not have any video campaigns running"
W_MissingSB   == "Missing Sponsored Brands data - make sure to check \"Sponsored Brands data\" and \"Sponsored Brands multi-ad group data\" when downloading"
W_NoThumbnails == "Video thumbnails unavailable - check \"Brand assets data\" when downloading for thumbnails"

Str(x) == [t |-> "s", s |-> x, n |-> 0]
Num(x) == [t |-> "n", s |-> <<>>, n |-> x]
Undef  == [t |-> "u", s |-> <<>>, n |-> 0]

DigitSeq == <<"0","1","2","3","4","5","6","7","8","9">>
DigitVal(c) == (CHOOSE i \in DOMAIN DigitSeq : DigitSeq[i] = c) - 1

\* String(n) for an integer n
RECURSIVE NatToText(_)
NatToText(n) ==
    IF n < 10 THEN <<DigitSeq[n + 1]>>
    ELSE NatToText(n \div 10) \o <<DigitSeq[(n % 10) + 1]>>
NumToText(n) == IF n < 0 THEN <<"-">> \o NatToText(0 - n) ELSE NatToText(n)

\* String(cell)
CellText(c) == IF c.t = "s" THEN c.s ELSE NumToText(c.n)

\* Number(text) || 0 for a trimmed text: '' is 0, an optionally signed run of
\* digits is its value, anything else is NaN and so 0
RECURSIVE DigitsToNat(_, _)
DigitsToNat(acc, s) ==
    IF s = <<>> THEN acc ELSE DigitsToNat(acc * 10 + DigitVal(Head(s)), Tail(s))
IsDigits(s) == s # <<>> /\ \A i \in DOMAIN s : s[i] \in Digits
NumberOr0(s) ==
    IF IsDigits(s) THEN DigitsToNat(0, s)
    ELSE IF s # <<>> /\ Head(s) = "-" /\ IsDigits(Tail(s)) THEN 0 - DigitsToNat(0, Tail(s))
    ELSE IF s # <<>> /\ Head(s) = "+" /\ IsDigits(Tail(s)) THEN DigitsToNat(0, Tail(s))
    ELSE 0

\* parseExcel.ts:5-9: the index of the first sheet whose name is targetName
\* up to case, 0 for null
findSheet(workbook, targetName) ==
    LET hits == { i \in DOMAIN workbook.sheets :
                    toLowerCase(workbook.sheets[i].name) = toLowerCase(targetName) }
    IN  IF hits = {} THEN 0 ELSE CHOOSE i \in hits : \A j \in hits : i <= j

\* parseExcel.ts:14-17: lowerKeys[lk], the last header of the row that is lk
\* in lower case (0 when there is none)
LowerKey(row, lk) ==
    LET hits == { i \in DOMAIN row : toLowerCase(row[i][1]) = lk }
    IN  IF hits = {} THEN 0 ELSE CHOOSE i \in hits : \A j \in hits : j <= i

\* parseExcel.ts:21: the test on one alias
HasValue(row, k) ==
    /\ k # 0
    /\ row[k][1] # <<>>
    /\ row[k][2].t # "u"
    /\ ~(row[k][2].t = "s" /\ row[k][2].s = <<>>)

\* lines 12-26 when the first alias whose header is in the row is taken,
\* its cell empty or not
getRowValue_FirstHeader(row, keys) ==
    LET present == { i \in DOMAIN keys : LowerKey(row, toLowerCase(keys[i])) # 0 }
        first   == CHOOSE i \in present : \A j \in present : i <= j
    IN  IF present = {} THEN <<>>
        ELSE IF row[LowerKey(row, toLowerCase(keys[first]))][2].t = "u" THEN <<>>
        ELSE trim(CellText(row[LowerKey(row, toLowerCase(keys[first]))][2]))

\* parseExcel.ts:12-26
RECURSIVE getRowValue(_, _)
getRowValue(row, keys) ==
    IF keys = <<>> THEN <<>>
    ELSE LET k == LowerKey(row, toLowerCase(Head(keys)))
         IN  IF HasValue(row, k) THEN trim(CellText(row[k][2]))
             ELSE getRowValue(row, Tail(keys))

\* parseExcel.ts:29-32
getRowNumber(row, keys) == NumberOr0(getRowValue(row, keys))

\* parseExcel.ts:169-193
RowToCampaign(row) ==
    [ campaignId |-> getRowValue(row, K_campaignId),
      adGroupId |-> getRowValue(row, K_adGroupId),
      adId |-> getRowValue(row, K_adId),
      keywordId |-> getRowValue(row, K_keywordId),
      productTargetingId |-> getRowValue(row, K_productTargetingId),
      productTargetingExpression |-> getRowValue(row, K_productTargetingExpression),
      campaignName |-> getRowValue(row, K_campaignName),
      adGroupName |-> getRowValue(row, K_adGroupName),
      adName |-> getRowValue(row, K_adName),
      keywordText |-> getRowValue(row, K_keywordText),
      matchType |-> getRowValue(row, K_matchType),
      videoAssetIds |-> getRowValue(row, K_videoAssetIds),
      impressions |-> getRowNumber(row, K_impressions),
      clicks |-> getRowNumber(row, K_clicks),
      spend |-> getRowNumber(row, K_spend),
      sales |-> getRowNumber(row, K_sales),
      orders |-> getRowNumber(row, K_orders),
      units |-> getRowNumber(row, K_units),
      ctr |-> getRowNumber(row, K_ctr),
      conversionRate |-> getRowNumber(row, K_conversionRate),
      acos |-> getRowNumber(row, K_acos),
      cpc |-> getRowNumber(row, K_cpc),
      roas |-> getRowNumber(row, K_roas) ]

\* lines 166-167 without the test of the asset-id field
RowAccepted_Always(row) == TRUE

\* parseExcel.ts:166-167: the row is taken
RowAccepted(row) == getRowValue(row, K_videoAssetIds) # <<>>

\* parseExcel.ts:164-194: the rows of one sheet
RECURSIVE RowsToCampaigns(_)
RowsToCampaigns(rows) ==
    IF rows = <<>> THEN <<>>
    ELSE IF RowAccepted(Head(rows))
         THEN <<RowToCampaign(Head(rows))>> \o RowsToCampaigns(Tail(rows))
         ELSE RowsToCampaigns(Tail(rows))

\* parseExcel.ts:155
sheetPatterns == << S_MultiAdGroup, S_SponsoredBrands >>

\* lines 158-201 when the loop stops at the first candidate sheet there is
TryPatterns_FirstPresent(workbook, patterns) ==
    LET present == { k \in DOMAIN patterns : findSheet(workbook, patterns[k]) # 0 }
        first   == CHOOSE k \in present : \A j \in present : k <= j
    IN  IF present = {} THEN [campaigns |-> <<>>, source |-> <<>>]
        ELSE IF RowsToCampaigns(workbook.sheets[findSheet(workbook, patterns[first])].objects) = <<>>
        THEN [campaigns |-> <<>>, source |-> <<>>]
        ELSE [campaigns |-> RowsToCampaigns(workbook.sheets[findSheet(workbook, patterns[first])].objects),
              source |-> <<patterns[first]>>]

\* parseExcel.ts:158-201: the loop over sheetPatterns; source null is <<>>
RECURSIVE TryPatterns(_, _)
TryPatterns(workbook, patterns) ==
    IF patterns = <<>> THEN [campaigns |-> <<>>, source |-> <<>>]
    ELSE LET at == findSheet(workbook, Head(patterns))
             cs == IF at = 0 THEN <<>> ELSE RowsToCampaigns(workbook.sheets[at].objects)
         IN  IF cs # <<>> THEN [campaigns |-> cs, source |-> <<Head(patterns)>>]
             ELSE TryPatterns(workbook, Tail(patterns))

\* lines 203-209 with one warning for every parse without records
CampaignWarnings_Conflated(workbook, campaigns) ==
    IF campaigns = <<>> THEN <<W_MissingSB>> ELSE <<>>

\* parseExcel.ts:203-209: what is pushed on warnings
CampaignWarnings(workbook, campaigns) ==
    LET hasSBSheet == \E i \in DOMAIN sheetPatterns : findSheet(workbook, sheetPatterns[i]) # 0
    IN  IF hasSBSheet /\ campaigns = <<>> THEN <<W_NoVideoAds>>
        ELSE IF ~hasSBSheet THEN <<W_MissingSB>>
        ELSE <<>>

\* parseExcel.ts:150-212
CampaignResult(found, workbook, ws) ==
    [ campaigns |-> found.campaigns,
      source |-> found.source,
      warnings |-> ws \o CampaignWarnings(workbook, found.campaigns) ]
parseCampaignData(workbook, ws) ==
    CampaignResult(TryPatterns(workbook, sheetPatterns), workbook, ws)

\* row[k] of a grid row, k counted from 0
CellAt(row, k) == IF k + 1 <= Len(row) THEN row[k + 1] ELSE Undef
Truthy(c) == (c.t = "s" /\ c.s # <<>>) \/ (c.t = "n" /\ c.n # 0)
\* String(row[k] || '').trim()
CellOrEmpty(row, k) == IF Truthy(CellAt(row, k)) THEN trim(CellText(CellAt(row, k))) ELSE <<>>

AssetTypes == { T_Video, T_CustomImage, T_OtherImage, T_BrandLogo, T_ProductImage }

\* lines 126-145 with the test of the asset type left out
RECURSIVE GridToAssets_AnyType(_)
GridToAssets_AnyType(rows) ==
    IF rows = <<>> THEN <<>>
    ELSE IF Truthy(CellAt(Head(rows), 0)) /\ CellOrEmpty(Head(rows), 2) # <<>>
         THEN << [ assetType |-> CellOrEmpty(Head(rows), 0),
                   assetId |-> CellOrEmpty(Head(rows), 2),
                   assetName |-> CellOrEmpty(Head(rows), 3),
                   assetUrl |-> CellOrEmpty(Head(rows), 4),
                   creativeName |-> <<>>, category |-> <<>> ] >>
              \o GridToAssets_AnyType(Tail(rows))
         ELSE GridToAssets_AnyType(Tail(rows))

\* parseExcel.ts:126-145: the data rows after the header row
RECURSIVE GridToAssets(_)
GridToAssets(rows) ==
    IF rows = <<>> THEN <<>>
    ELSE LET row == Head(rows)
             assetType == CellOrEmpty(row, 0)
             assetId   == CellOrEmpty(row, 2)
         IN  IF Truthy(CellAt(row, 0)) /\ assetId # <<>> /\ assetType \in AssetTypes
             THEN << [ assetType |-> assetType, assetId |-> assetId,
                       assetName |-> CellOrEmpty(row, 3),
                       assetUrl |-> CellOrEmpty(row, 4),
                       creativeName |-> <<>>, category |-> <<>> ] >>
                  \o GridToAssets(Tail(rows))
             ELSE GridToAssets(Tail(rows))

\* parseExcel.ts:99-148
parseBrandAssets(workbook, ws) ==
    LET at == findSheet(workbook, S_BrandAssets)
        rawData == IF at = 0 THEN <<>> ELSE workbook.sheets[at].grid
        headers == { i \in DOMAIN rawData :
                       CellAt(rawData[i], 0).t = "s" /\ CellAt(rawData[i], 0).s = H_AssetType }
        headerRowIndex == IF headers = {} THEN 0
                          ELSE CHOOSE i \in headers : \A j \in headers : i <= j
    IN  IF at = 0 THEN [assets |-> <<>>, warnings |-> ws]
        ELSE IF headerRowIndex = 0
             THEN [assets |-> <<>>, warnings |-> Append(ws, W_NoHeaderRow)]
        ELSE [ assets |-> GridToAssets(SubSeq(rawData, headerRowIndex + 1, Len(rawData))),
               warnings |-> ws ]

\* videoAssetIds.split(',')
RECURSIVE SplitComma(_, _)
SplitComma(cur, s) ==
    IF s = <<>> THEN <<cur>>
    ELSE IF Head(s) = "," THEN <<cur>> \o SplitComma(<<>>, Tail(s))
    ELSE SplitComma(Append(cur, Head(s)), Tail(s))

\* lines 79-87 with an array in place of the Set
RECURSIVE AddIds_NoDedup(_, _)
AddIds_NoDedup(seen, ids) ==
    IF ids = <<>> THEN seen
    ELSE AddIds_NoDedup(IF trim(Head(ids)) = <<>> THEN seen
                        ELSE Append(seen, trim(Head(ids))),
                        Tail(ids))

\* parseExcel.ts:79-87: the Set of ids in insertion order
RECURSIVE AddIds(_, _)
AddIds(seen, ids) ==
    IF ids = <<>> THEN seen
    ELSE LET id == trim(Head(ids))
         IN  AddIds(IF id = <<>> \/ id \in Range(seen) THEN seen ELSE Append(seen, id),
                    Tail(ids))
RECURSIVE UniqueVideoIds(_, _)
UniqueVideoIds(seen, campaigns) ==
    IF campaigns = <<>> THEN seen
    ELSE UniqueVideoIds(
           IF Head(campaigns).videoAssetIds # <<>>
           THEN AddIds(seen, SplitComma(<<>>, Head(campaigns).videoAssetIds))
           ELSE seen,
           Tail(campaigns))

PlaceholderNameLen == 8
\* assetId.slice(-8)
SliceLast(s) ==
    IF Len(s) <= PlaceholderNameLen THEN s
    ELSE SubSeq(s, Len(s) - PlaceholderNameLen + 1, Len(s))

\* parseExcel.ts:78-97
createPlaceholderAssets(campaigns) ==
    LET ids == UniqueVideoIds(<<>>, campaigns)
    IN  [ i \in DOMAIN ids |->
            [ assetType |-> T_Video, assetId |-> ids[i],
              assetName |-> T_VideoSpace \o SliceLast(ids[i]),
              assetUrl |-> <<>>, creativeName |-> <<>>, category |-> <<>> ] ]

\* parseExcel.ts:62-69: parseInfo and the value the promise resolves with
Resolved_With(brandAssets, campaigns, source, ws) ==
    [ rejected |-> FALSE,
      brandAssets |-> brandAssets,
      campaignData |-> campaigns,
      parseInfo |-> [ hasBrandAssets |-> brandAssets # <<>>,
                      hasCampaignData |-> campaigns # <<>>,
                      campaignDataSource |-> source,
                      warnings |-> ws ] ]

\* parseExcel.ts:54-60: placeholder assets when there are records and no
\* assets, with the warning when some were made
WithPlaceholders(placeholders, c) ==
    Resolved_With(placeholders, c.campaigns, c.source,
                  IF placeholders # <<>> THEN Append(c.warnings, W_NoThumbnails)
                  ELSE c.warnings)

\* parseExcel.ts:48-69: after parseBrandAssets and parseCampaignData
AfterSheets(a, c) ==
    IF c.campaigns # <<>> /\ a = <<>>
    THEN WithPlaceholders(createPlaceholderAssets(c.campaigns), c)
    ELSE Resolved_With(a, c.campaigns, c.source, c.warnings)

\* parseExcel.ts:45-51: the two sheets parsed in turn over one warnings array
ParseSheets(workbook, a) ==
    AfterSheets(a.assets, parseCampaignData(workbook, a.warnings))

\* parseExcel.ts:34-75: what the promise settles with; rejected when XLSX.read
\* throws
parseExcelFile(workbook) ==
    IF ~workbook.readable THEN [rejected |-> TRUE]
    ELSE ParseSheets(workbook, parseBrandAssets(workbook, <<>>))


(***************************************************************************)
(* Application state: App.tsx                                              *)
(***************************************************************************)
E_NotReport   == "This file doesn't appear to be an Amazon Bulk Report. Please download from Campaign Manager → Bulk operations."
E_ParseFailed == "Failed to parse the Excel file. Please make sure it's a valid Amazon Bulk Report from Campaign Manager → Bulk operations."

\* App.tsx:73  asset.creativeName || asset.category
HasLabel(asset) == asset.creativeName # <<>> \/ asset.category # <<>>

\* App.tsx:71-80: existingLabels.get(id) after the forEach, the last labelled
\* asset of that id
existingLabelsGet(prevAssets, id) ==
    LET idx == { i \in DOMAIN prevAssets :
                   prevAssets[i].assetId = id /\ HasLabel(prevAssets[i]) }
    IN  IF idx = {} THEN <<>>
        ELSE LET last == CHOOSE i \in idx : \A j \in idx : j <= i
             IN  << [ creativeName |-> prevAssets[last].creativeName,
                      category |-> prevAssets[last].category ] >>

\* App.tsx:83-89  data.brandAssets.map(...)
assetsWithLabels(brandAssets, prevAssets) ==
    [ i \in DOMAIN brandAssets |->
        LET existing == existingLabelsGet(prevAssets, brandAssets[i].assetId)
        IN  IF existing # <<>>
            THEN [ brandAssets[i] EXCEPT !.creativeName = existing[1].creativeName,
                                         !.category = existing[1].category ]
            ELSE brandAssets[i] ]

\* useDataPersistence.ts:65-74: the row saveData inserts for an asset; a
\* nullable column is a sequence of length 0 (null) or 1
ToDbAsset(asset) ==
    [ asset_id |-> asset.assetId,
      asset_type |-> asset.assetType,
      asset_name |-> asset.assetName,
      asset_url |-> asset.assetUrl,
      creative_name |-> IF asset.creativeName # <<>> THEN <<asset.creativeName>> ELSE <<>>,
      category |-> IF asset.category # <<>> THEN <<asset.category>> ELSE <<>>,
      thumbnail_url |-> <<>> ]

\* useDataPersistence.ts:87-112: the row saveData inserts for a record
ToDbCampaign(campaign) ==
    [ campaign_id |-> campaign.campaignId,
      ad_group_id |-> campaign.adGroupId,
      ad_id |-> campaign.adId,
      keyword_id |-> campaign.keywordId,
      product_targeting_id |-> campaign.productTargetingId,
      product_targeting_expression |-> campaign.productTargetingExpression,
      campaign_name |-> campaign.campaignName,
      ad_group_name |-> campaign.adGroupName,
      ad_name |-> campaign.adName,
      keyword_text |-> campaign.keywordText,
      match_type |-> campaign.matchType,
      video_asset_ids |-> campaign.videoAssetIds,
      impressions |-> campaign.impressions,
      clicks |-> campaign.clicks,
      spend |-> campaign.spend,
      sales |-> campaign.sales,
      orders |-> campaign.orders,
      units |-> campaign.units,
      ctr |-> campaign.ctr,
      conversion_rate |-> campaign.conversionRate,
      acos |-> campaign.acos,
      cpc |-> campaign.cpc,
      roas |-> campaign.roas ]

ToDbAssets(as) == [ i \in DOMAIN as |-> ToDbAsset(as[i]) ]

\* useDataPersistence.ts:85  const batchSize = 500
batchSize == 500

\* useDataPersistence.ts:87  campaignData.slice(i, i + batchSize).map(...)
Batch(cs, i) ==
    LET hi == IF i + batchSize < Len(cs) THEN i + batchSize ELSE Len(cs)
    IN  [ k \in 1..(hi - i) |-> ToDbCampaign(cs[i + k]) ]

\* part_000:16  UNIQUE(user_id, asset_id): the insert is refused when two of
\* the user's rows would hold one asset_id
UniqueAssetIds(rows) ==
    \A i, j \in DOMAIN rows : rows[i].asset_id = rows[j].asset_id => i = j

\* App.tsx:114-118  { ...asset, ...updates }; a key missing from updates is
\* the empty option
ApplyUpdates(asset, updates) ==
    [ asset EXCEPT
        !.creativeName = IF updates.creativeName # <<>> THEN updates.creativeName[1] ELSE @,
        !.category     = IF updates.category # <<>> THEN updates.category[1] ELSE @ ]


(***************************************************************************)
(* Inputs of the bounded checks                                            *)
(***************************************************************************)
SeqsUpTo(S, n) == UNION { [1..k -> S] : k \in 0..n }

V1 == <<"v","1">>
V2 == <<"v","2">>
V3 == <<"v","1",",","v","2">>
G1 == <<"g","1">>
G2 == <<"g","2">>
C1n == <<"c","1">>
L1 == <<"L","a","d","y">>
L2 == <<"P","r","o","d">>
K1 == <<"b","r","o","o","m">>

\* a record as parseCampaignData builds it (parseExcel.ts:169-193)
BaseRec ==
    [ campaignId |-> <<>>, adGroupId |-> <<>>, adId |-> <<>>, keywordId |-> <<>>,
      productTargetingId |-> <<>>, productTargetingExpression |-> <<>>,
      campaignName |-> C1n, adGroupName |-> G1, adName |-> <<>>,
      keywordText |-> <<>>, matchType |-> <<>>, videoAssetIds |-> V1,
      impressions |-> 0, clicks |-> 0, spend |-> 0, sales |-> 0, orders |-> 0,
      units |-> 0, ctr |-> 0, conversionRate |-> 0, acos |-> 0, cpc |-> 0,
      roas |-> 0 ]

BaseAsset ==
    [ assetType |-> <<"V","i","d","e","o">>, assetId |-> V1, assetName |-> <<>>,
      assetUrl |-> <<>>, creativeName |-> <<>>, category |-> <<>> ]

Asset(id, name, cat) ==
    [BaseAsset EXCEPT !.assetId = id, !.creativeName = name, !.category = cat]

\* Winner determination: two creatives of one ad group, spends below, at and
\* above the threshold alone or summed, return ratios from -1 to 5
WinnerPool ==
    { [BaseRec EXCEPT !.videoAssetIds = v, !.spend = m[1], !.sales = m[2],
                      !.impressions = 1] :
        v \in {V1, V2},
        m \in { <<4, 20>>, <<6, 6>>, <<10, 10>>, <<12, 0>>, <<10, -10>> } }

\* Keyword grouping: one keyword under several match types, and texts that
\* hold the ':' the group key is joined with
T_Exact == <<"E","x","a","c","t">>
T_Broad == <<"B","r","o","a","d">>
KeywordPool ==
    { [BaseRec EXCEPT !.keywordText = k, !.matchType = m, !.impressions = 1,
                      !.spend = 1] :
        k \in { K1, K1 \o <<":","x">> },
        m \in { <<>>, T_Exact, T_Broad, <<"x",":">> } }
    \cup { [BaseRec EXCEPT !.matchType = T_Exact, !.impressions = 1, !.spend = 1] }

\* ASIN grouping: expressions with and without a code, in both cases of
\* letters, and targeting ids that do and do not hold a code
E_AsinQuoted == <<"a","s","i","n","=","\"","B","0","8","X","Y","Z","1","2","3","4","\"">>
E_LowerBare  == <<"b","0","8","x","y","z","1","2","3","4">>
E_NoCode     == <<"c","a","t","e","g","o","r","y","=","\"","9","\"">>
E_Prefixed   == <<"A","S","I","N",":","b","0","7","a","b","c","d","e","f","g","h">>
I_Code       == <<"x","-","b","0","9","q","q","q","q","q","q","q","q">>
I_NoCode     == <<"1","2","3">>
AsinRec(e, i) ==
    [BaseRec EXCEPT !.productTargetingExpression = e, !.productTargetingId = i,
                    !.impressions = 1, !.spend = 1]
AsinPool ==
    { AsinRec(<<>>, <<>>), AsinRec(<<>>, I_Code), AsinRec(E_AsinQuoted, <<>>),
      AsinRec(E_LowerBare, I_Code), AsinRec(E_NoCode, I_Code),
      AsinRec(E_NoCode, I_NoCode), AsinRec(E_Prefixed, <<>>) }

\* Performance view: a labelled asset, an asset without labels and an id with
\* no asset; metrics with zero and negative denominators; platform ratios
\* that differ from every recomputed ratio
A1n == <<"a","d","1">>
Cat1 == <<"H","o","o","k">>
PerfRec(v, ad, m) ==
    [BaseRec EXCEPT !.videoAssetIds = v, !.adName = ad,
                    !.impressions = m[1], !.clicks = m[2], !.orders = m[3],
                    !.spend = m[4], !.sales = m[5], !.units = m[3],
                    !.ctr = 7, !.conversionRate = 7, !.acos = 7, !.cpc = 7,
                    !.roas = 7]
PerfPool ==
    { PerfRec(v, A1n, <<10, 2, 1, 5, 20>>) : v \in {V1, V2, V3} }
    \cup { PerfRec(v, <<>>, <<0, 0, 0, 10, 10>>) : v \in {V1, V2, V3} }
    \cup { PerfRec(v, A1n, <<4, 1, 0, -6, 4>>) : v \in {V1, V2, V3} }
PerfAssets == << Asset(V1, L1, Cat1), Asset(V2, <<>>, <<>>) >>
RatioPool == { r \in PerfPool : r.videoAssetIds \in {V1, V3} }

\* Workbooks: the candidate performance sheets present or not, under names in
\* either case, their rows with the asset-id column filled, padded, blank,
\* empty, numeric or missing; the asset sheet present or not; a file that
\* cannot be read
MaxRows == 2
H_VideoAssetIds == K_videoAssetIds[1]
H_VideoMediaIds == K_videoAssetIds[2]
RowPool ==
    { << <<H_VideoAssetIds, Str(V1)>> >>,
      << <<toLowerCase(H_VideoAssetIds), Str(<<" ">> \o V2 \o <<" ">>)>> >>,
      << <<H_VideoAssetIds, Str(<<" "," ">>)>>, <<H_VideoMediaIds, Str(V1)>> >>,
      << <<H_VideoAssetIds, Str(<<>>)>>, <<H_VideoMediaIds, Str(V2)>> >>,
      << <<K_campaignName[1], Str(C1n)>> >> }
RowPool2 ==
    { << <<H_VideoMediaIds, Str(V1)>> >>,
      << <<H_VideoAssetIds, Str(<<" ">>)>> >>,
      << <<H_VideoAssetIds, Num(0)>> >> }
Sheet(nm, g, o) == [name |-> nm, grid |-> g, objects |-> o]
AssetGrid ==
    << << Str(H_AssetType) >>,
       << Str(T_Video), Undef, Str(V1), Str(<<"n">>), Str(<<"u">>) >> >>
OptAssetSheets == { <<>>, << Sheet(S_BrandAssets, AssetGrid, <<>>) >> }
OptSponsoredSheets ==
    { <<>> } \cup { << Sheet(toLowerCase(S_SponsoredBrands), <<>>, rows) >> :
                      rows \in SeqsUpTo(RowPool2, MaxRows) }
OptMultiSheets ==
    { <<>> } \cup { << Sheet(S_MultiAdGroup, <<>>, rows) >> :
                      rows \in SeqsUpTo(RowPool, MaxRows) }
ParseFiles ==
    { [readable |-> TRUE, sheets |-> a \o b \o c] :
        a \in OptAssetSheets, b \in OptSponsoredSheets, c \in OptMultiSheets }
    \cup { [readable |-> FALSE, sheets |-> <<>>] }

\* Uploads: a file that cannot be read, a workbook that is no report, a report
\* with two assets and a performance row, a report with one of the two assets
\* and no performance sheet, a report with performance rows only
AssetRow(id) == << Str(T_Video), Undef, Str(id), Str(<<"n">>), Str(<<"u">>) >>
AssetSheet(ids) ==
    Sheet(S_BrandAssets, << << Str(H_AssetType) >> >> \o [i \in DOMAIN ids |-> AssetRow(ids[i])], <<>>)
PerfRow(ids) == << <<H_VideoAssetIds, Str(ids)>>, <<K_spend[1], Num(12)>> >>
F_Unreadable == [readable |-> FALSE, sheets |-> <<>>]
F_NoReport   == [readable |-> TRUE, sheets |-> << Sheet(<<"x">>, <<>>, <<>>) >>]
F_Full       == [readable |-> TRUE,
                 sheets |-> << AssetSheet(<<V1, V2>>),
                               Sheet(S_MultiAdGroup, <<>>, << PerfRow(V1) >>) >>]
F_OneAsset   == [readable |-> TRUE, sheets |-> << AssetSheet(<<V2>>) >>]
F_PerfOnly   == [readable |-> TRUE,
                 sheets |-> << Sheet(S_SponsoredBrands, <<>>, << PerfRow(V3) >>) >>]
UploadFiles == { F_Unreadable, F_NoReport, F_Full, F_OneAsset, F_PerfOnly }
UpdatePool ==
    { [creativeName |-> <<L1>>, category |-> <<>>],
      [creativeName |-> <<>>, category |-> <<Cat1>>] }
AssetIdPool == { V1, V2 }

\* Workbooks for the fallback synthesis: the asset sheet absent, without
\* header row, with a header row and no asset, or with one asset; one
\* performance sheet whose rows name one id, several, the same id twice,
\* padded ids, or nothing but commas
IdRowPool ==
    { << <<H_VideoAssetIds, Str(V1)>> >>,
      << <<H_VideoAssetIds, Str(V3)>> >>,
      << <<H_VideoAssetIds, Str(<<" ">> \o V2 \o <<" ",","," ">> \o V2 \o <<",">>)>> >>,
      << <<H_VideoAssetIds, Str(<<",">>)>> >>,
      << <<H_VideoAssetIds, Str(<<>>)>> >> }
PlaceholderAssetSheets ==
    { <<>>,
      << Sheet(S_BrandAssets, << << Str(T_Video) >> >>, <<>>) >>,
      << Sheet(S_BrandAssets, << << Str(H_AssetType) >>, << Str(<<"x">>), Undef, Str(V1) >> >>, <<>>) >>,
      << Sheet(S_BrandAssets, AssetGrid, <<>>) >> }
PlaceholderFiles ==
    { [readable |-> TRUE, sheets |-> a \o << Sheet(S_SponsoredBrands, <<>>, rows) >>] :
        a \in PlaceholderAssetSheets, rows \in SeqsUpTo(IdRowPool, MaxRows) }

\* Asset sheets: a title row or none, the header row, data rows whose type is
\* a known literal, padded, in lower case, unknown or missing and whose id is
\* text, padded, blank, a number, zero or missing
T_Audio == <<"A","u","d","i","o">>
AssetRowPool ==
    { << Str(T_Video), Undef, Str(V1), Str(<<"n">>), Str(<<"u">>) >>,
      << Str(<<" ">> \o T_Video \o <<" ">>), Undef, Str(V2) >>,
      << Str(toLowerCase(T_Video)), Undef, Str(V1) >>,
      << Str(T_CustomImage), Undef, Str(<<" ">> \o V1 \o <<" ">>) >>,
      << Str(T_Video), Undef, Str(<<" "," ">>) >>,
      << Str(T_ProductImage), Undef, Num(0) >>,
      << Str(T_BrandLogo), Undef, Num(7) >>,
      << Undef, Undef, Str(V1) >>,
      << Str(T_OtherImage) >>,
      << Str(T_Audio), Undef, Str(V2) >> }
AssetFiles ==
    { [readable |-> TRUE,
       sheets |-> << Sheet(S_BrandAssets, title \o << << Str(H_AssetType) >> >> \o rows, <<>>) >>] :
        title \in { <<>>, << << Str(T_Video), Undef, Str(V2) >> >> },
        rows \in SeqsUpTo(AssetRowPool, MaxRows) }

\* Target resolution: records with and without a campaign name, an ad group
\* name and a keyword, of an asset with a category, of one without, of none
TargetPool ==
    { [BaseRec EXCEPT !.campaignName = r[1], !.adGroupName = r[2], !.keywordText = r[3],
                      !.videoAssetIds = r[4], !.impressions = 1, !.spend = 2] :
        r \in { <<C1n, G1, K1, V1>>, <<<<>>, G1, K1, V1>>, <<C1n, <<>>, K1, V2>>,
                <<C1n, G2, <<>>, V2>>, <<<<>>, <<>>, <<>>, V1>>, <<C1n, G1, K1, V3>> } }
TargetAssets == { <<>>, << Asset(V1, L1, Cat1), Asset(V2, <<>>, <<>>) >> }

\* Metric cells: numbers and texts, positive, negative, signed, padded, empty
\* and not numeric
MetricCells == { Num(12), Num(0 - 6), Str(<<"-","6">>), Str(<<" ","7"," ">>),
                 Str(<<"+","3">>), Str(<<"n","/","a">>), Str(<<>>) }
MetricRowPool ==
    { << <<H_VideoAssetIds, Str(V1)>>, <<K_impressions[1], c[1]>>, <<K_spend[1], c[2]>> >> :
        c \in { <<Num(12), Num(12)>>, <<Num(0 - 6), Str(<<" ","7"," ">>)>>,
                <<Str(<<"n","/","a">>), Str(<<"-","6">>)>>, <<Str(<<"+","3">>), Str(<<>>)>>,
                <<Str(<<" ","7"," ">>), Num(0 - 6)>> } }
    \cup { << <<H_VideoAssetIds, Str(V2)>>, <<K_clicks[1], c>>, <<K_sales[1], c>>,
              <<K_orders[1], c>>, <<K_units[1], c>> >> : c \in MetricCells }
MetricFiles ==
    { [readable |-> TRUE, sheets |-> << Sheet(S_MultiAdGroup, <<>>, rows) >>] :
        rows \in SeqsUpTo(MetricRowPool, MaxRows) }

InitSignedOut ==
    /\ isAuthenticated = FALSE   \* AuthContext: user starts null
    /\ uploadAuth = FALSE
    /\ saveStatus = "idle"       \* App.tsx:29
    /\ showAuthModal = FALSE     \* App.tsx:28
    /\ timers = 0
    /\ store = [assets |-> <<>>, campaigns |-> <<>>]
    /\ ops = <<>>
    /\ faults = 0
    /\ isSaving = FALSE
    /\ lastSave = <<>>

InitApp ==
    /\ InitSignedOut
    /\ error = <<>>
    /\ warnings = <<>>
    /\ inflight = <<>>
    /\ hist = [op |-> "init", before |-> <<>>, seen |-> <<>>, file |-> <<>>]

InitRest ==
    /\ InitApp
    /\ file = <<>>
    /\ parsed = <<>>
    /\ abGroupBy = "adgroup"      \* ABTestView.tsx:39
    /\ perfGroupBy = "creative"   \* PerformanceDashboard.tsx:45
    /\ expandedGroups = {}       \* ABTestView.tsx:41
    /\ showOnlyABTests = TRUE    \* ABTestView.tsx:42

InitWinner ==
    /\ campaignData \in SeqsUpTo(WinnerPool, MaxRecords)
    /\ assets \in { <<>>, <<Asset(V1, L1, <<>>)>> }
    /\ InitRest

InitKeyword ==
    /\ campaignData \in SeqsUpTo(KeywordPool, MaxRecords)
    /\ assets = <<>>
    /\ InitRest

InitAsin ==
    /\ campaignData \in SeqsUpTo(AsinPool, MaxRecords)
    /\ assets = <<>>
    /\ InitRest

InitPerf ==
    /\ campaignData \in SeqsUpTo(PerfPool, MaxRecords)
    /\ assets = PerfAssets
    /\ InitRest

InitRatios ==
    /\ campaignData \in SeqsUpTo(RatioPool, MaxRecords)
    /\ assets = PerfAssets
    /\ InitRest

InitParse ==
    /\ file \in { <<f>> : f \in ParseFiles }
    /\ parsed = <<>>
    /\ assets = <<>>
    /\ campaignData = <<>>
    /\ InitApp
    /\ abGroupBy = "adgroup"
    /\ perfGroupBy = "creative"
    /\ expandedGroups = {}
    /\ showOnlyABTests = TRUE

InitPlaceholder ==
    /\ file \in { <<f>> : f \in PlaceholderFiles }
    /\ parsed = <<>>
    /\ assets = <<>>
    /\ campaignData = <<>>
    /\ InitApp
    /\ abGroupBy = "adgroup"
    /\ perfGroupBy = "creative"
    /\ expandedGroups = {}
    /\ showOnlyABTests = TRUE

InitAssets ==
    /\ file \in { <<f>> : f \in AssetFiles }
    /\ parsed = <<>>
    /\ assets = <<>>
    /\ campaignData = <<>>
    /\ InitApp
    /\ abGroupBy = "adgroup"
    /\ perfGroupBy = "creative"
    /\ expandedGroups = {}
    /\ showOnlyABTests = TRUE

\* Per-ad breakdown: one ad name under two campaigns and two ad groups, a
\* second ad name, records without an ad name, names that hold the '|' of
\* adKey, on a labelled asset and on an id with no asset
A2n == <<"a","d","2">>
C2n == <<"c","|","g","1">>
AdRec(v, ad, c, g, m) ==
    [BaseRec EXCEPT !.videoAssetIds = v, !.adName = ad, !.campaignName = c,
                    !.adGroupName = g, !.impressions = m, !.clicks = m + 1,
                    !.orders = 1, !.spend = 2 * m, !.sales = 3 * m, !.units = 1]
AdPool ==
    { AdRec(V1, A1n, c, g, 3) : c \in {C1n, C2n}, g \in {G1, G2} }
    \cup { AdRec(V1, A1n \o <<"|">> \o C1n, <<>>, G1, 5),
           AdRec(V1, A1n, C1n \o <<"|">>, G1, 7),
           AdRec(V1, <<>>, C1n, G1, 11),
           AdRec(V2, A1n, C1n, G1, 4),
           AdRec(V3, A2n, C1n, G1, 6) }
InitAds ==
    /\ campaignData \in SeqsUpTo(AdPool, MaxRecords)
    /\ assets = PerfAssets
    /\ InitRest

\* Column lookup: a field under its first alias, under a later alias with
\* the first one empty or absent, under a header in another case, under two
\* headers that differ in case only; cells padded, blank, empty and missing;
\* numeric fields as numbers, numeric texts and other texts
UpperHeader(h) == toUpperCase(h)
FieldRowPool ==
    { << <<H_VideoAssetIds, Str(V1)>>, <<K_campaignName[1], Str(<<" ">> \o C1n \o <<" ">>)>>,
         <<K_impressions[1], Num(12)>>, <<K_spend[1], Str(<<" ","7"," ">>)>> >>,
      << <<H_VideoMediaIds, Str(V2)>>, <<K_campaignName[1], Str(<<>>)>>,
         <<K_campaignName[2], Str(C1n)>>, <<K_adName[2], Str(A1n)>>,
         <<K_ctr[2], Str(<<"n","/","a">>)>>, <<K_acos[1], Str(<<>>)>> >>,
      << <<UpperHeader(H_VideoAssetIds), Str(V1)>>, <<UpperHeader(K_campaignName[4]), Str(C1n)>>,
         <<UpperHeader(K_adGroupName[3]), Str(G1)>>, <<toLowerCase(K_clicks[1]), Str(<<"3">>)>> >>,
      << <<H_VideoAssetIds, Str(V1)>>, <<K_adName[1], Str(<<" "," ">>)>>,
         <<K_campaignName[3], Str(C1n)>>, <<K_matchType[2], Undef>>,
         <<K_keywordText[2], Str(K1)>>, <<K_conversionRate[1], Num(0)>> >>,
      << <<H_VideoAssetIds, Str(V2)>>, <<K_spend[1], Num(5)>>,
         <<toLowerCase(K_spend[1]), Str(<<>>)>>, <<toLowerCase(K_sales[1]), Num(4)>>,
         <<K_sales[1], Str(<<"x">>)>>, <<K_adName[3], Str(C1n)>> >>,
      << <<toLowerCase(H_VideoMediaIds), Num(0)>>, <<K_orders[1], Str(<<"-","6">>)>>,
         <<K_units[1], Str(<<"+","3">>)>>, <<K_roas[1], Num(0 - 6)>>,
         <<K_cpc[1], Str(<<"1","x">>)>> >>,
      << <<H_VideoAssetIds, Str(<<>>)>>, <<K_campaignName[1], Str(C1n)>> >> }
FieldFiles ==
    { [readable |-> TRUE, sheets |-> << Sheet(S_MultiAdGroup, <<>>, rows) >>] :
        rows \in SeqsUpTo(FieldRowPool, MaxRows) }
InitFields ==
    /\ file \in { <<f>> : f \in FieldFiles }
    /\ parsed = <<>>
    /\ assets = <<>>
    /\ campaignData = <<>>
    /\ InitApp
    /\ abGroupBy = "adgroup"
    /\ perfGroupBy = "creative"
    /\ expandedGroups = {}
    /\ showOnlyABTests = TRUE

InitTargets ==
    /\ campaignData \in SeqsUpTo(TargetPool, MaxRecords)
    /\ assets \in TargetAssets
    /\ InitRest

InitMetrics ==
    /\ file \in { <<f>> : f \in MetricFiles }
    /\ parsed = <<>>
    /\ assets = <<>>
    /\ campaignData = <<>>
    /\ InitApp
    /\ abGroupBy = "adgroup"
    /\ perfGroupBy = "creative"
    /\ expandedGroups = {}
    /\ showOnlyABTests = TRUE

\* A signed-in session: the user's rows are what an earlier save left, the
\* memory holds what was loaded, uploaded or edited since
StoreRec == [BaseRec EXCEPT !.impressions = 1, !.spend = 12]
StoreAssetLists == { <<>>, << Asset(V1, L1, <<>>) >>, << Asset(V2, <<>>, <<>>) >> }
StoreFiles == { F_Unreadable, F_NoReport, F_Full }
InitStore ==
    /\ assets \in StoreAssetLists
    /\ campaignData \in SeqsUpTo({StoreRec}, MaxRecords - 1)
    /\ store \in { [assets |-> ToDbAssets(a), campaigns |-> Batch(c, 0)] :
                     a \in StoreAssetLists, c \in SeqsUpTo({StoreRec}, 1) }
    /\ isAuthenticated = TRUE
    /\ uploadAuth = TRUE
    /\ saveStatus = "idle"
    /\ showAuthModal = FALSE
    /\ timers = 0
    /\ ops = <<>>
    /\ faults = 0
    /\ isSaving = FALSE
    /\ lastSave = <<>>
    /\ error = <<>>
    /\ warnings = <<>>
    /\ inflight = <<>>
    /\ hist = [op |-> "init", before |-> <<>>, seen |-> <<>>, file |-> <<>>]
    /\ file = <<>>
    /\ parsed = <<>>
    /\ abGroupBy = "adgroup"
    /\ perfGroupBy = "creative"
    /\ expandedGroups = {}
    /\ showOnlyABTests = TRUE

Init ==
    /\ assets = <<>>          \* App.tsx:23
    /\ campaignData = <<>>    \* App.tsx:24
    /\ InitRest

\* a suspended call of the persistence hook: where it stands, what it was
\* given, who called it, whether a request of it has come back with an error
Op(pc, as, cs, caller, assetId, updates) ==
    [ pc |-> pc, assets |-> as, campaignData |-> cs, i |-> 0, caller |-> caller,
      requestFailed |-> FALSE, assetId |-> assetId, updates |-> updates,
      overlapped |-> FALSE ]

NoUpdates == [creativeName |-> <<>>, category |-> <<>>]

\* useDataPersistence.ts:49-60: saveData of an authenticated render up to its
\* first await, the delete on brand_assets is on its way
\* the saveData calls among the calls in flight
SavePcs == {"deleteAssets", "deleteCampaigns", "insertAssets", "insertCampaigns"}
SavesIn(q) == { j \in DOMAIN q : q[j].pc \in SavePcs }

\* overlapped notes, for the properties, that another saveData call was in
\* flight during this one
saveData(as, cs, caller) ==
    Append([ j \in DOMAIN ops |->
               IF j \in SavesIn(ops) THEN [ops[j] EXCEPT !.overlapped = TRUE]
               ELSE ops[j] ],
           [ Op("deleteAssets", as, cs, caller, <<>>, NoUpdates)
               EXCEPT !.overlapped = SavesIn(ops) # {} ])

\* useDataPersistence.ts:206-222: updateAssetLabels of an authenticated render
\* up to its await
updateAssetLabels(assetId, updates) ==
    Append(ops, [ Op("updateLabels", <<>>, <<>>, "handleUpdateAsset", assetId, updates)
                    EXCEPT !.overlapped = SavesIn(ops) # {} ])

\* App.tsx:51-57: handleFileUpload up to the await; the callback sees the
\* assets and the isAuthenticated of the render it was created in (deps
\* [assets], App.tsx:110); the upload control is disabled while isLoading
StartUpload(f) ==
    /\ inflight = <<>>
    /\ error' = <<>>
    /\ warnings' = <<>>
    /\ inflight' = << [file |-> f, assets |-> assets, auth |-> uploadAuth] >>
    /\ hist' = [op |-> "start", before |-> <<>>, seen |-> <<>>, file |-> <<>>]
    /\ UNCHANGED <<assets, campaignData, abGroupBy, perfGroupBy, viewState, file, parsed>>
    /\ UNCHANGED storeVars

\* App.tsx:104-109: parseExcelFile rejected, the catch block and finally
UploadRejected_ClearsState ==
    /\ inflight # <<>>
    /\ parseExcelFile(inflight[1].file).rejected
    /\ error' = <<E_ParseFailed>>
    /\ hist' = [op |-> "uploadFailed", before |-> assets,
                seen |-> inflight[1].assets, file |-> <<inflight[1].file>>]
    /\ inflight' = <<>>
    /\ assets' = <<>>
    /\ campaignData' = <<>>
    /\ UNCHANGED <<warnings, abGroupBy, perfGroupBy, viewState, file, parsed>>
    /\ UNCHANGED storeVars

UploadRejected ==
    /\ inflight # <<>>
    /\ parseExcelFile(inflight[1].file).rejected
    /\ error' = <<E_ParseFailed>>
    /\ hist' = [op |-> "uploadFailed", before |-> assets,
                seen |-> inflight[1].assets, file |-> <<inflight[1].file>>]
    /\ inflight' = <<>>
    /\ UNCHANGED <<assets, campaignData, warnings, abGroupBy, perfGroupBy, viewState,
                   file, parsed>>
    /\ UNCHANGED storeVars

\* App.tsx:60-64: the parse resolved with neither assets nor records
UploadUnusable_With(data) ==
    /\ ~data.rejected
    /\ ~data.parseInfo.hasBrandAssets /\ ~data.parseInfo.hasCampaignData
    /\ error' = <<E_NotReport>>
    /\ hist' = [op |-> "uploadUnusable", before |-> assets,
                seen |-> inflight[1].assets, file |-> <<inflight[1].file>>]
    /\ inflight' = <<>>
    /\ UNCHANGED <<assets, campaignData, warnings, abGroupBy, perfGroupBy, viewState,
                   file, parsed>>
    /\ UNCHANGED storeVars

UploadUnusable ==
    /\ inflight # <<>>
    /\ UploadUnusable_With(parseExcelFile(inflight[1].file))

\* App.tsx:66-103: the parse resolved with assets or records; the auto-save
\* is the saveData of the render the callback was created in
UploadAccepted_With(data, labelled) ==
    /\ ~data.rejected
    /\ data.parseInfo.hasBrandAssets \/ data.parseInfo.hasCampaignData
    /\ inflight[1].auth => Len(ops) < MaxOps
    /\ warnings' = IF data.parseInfo.warnings # <<>>
                   THEN data.parseInfo.warnings ELSE warnings
    /\ assets' = labelled
    /\ campaignData' = data.campaignData
    /\ saveStatus' = "idle"
    /\ ops' = IF inflight[1].auth /\ (labelled # <<>> \/ data.campaignData # <<>>)
              THEN saveData(labelled, data.campaignData, "handleFileUpload")
              ELSE ops
    /\ isSaving' = IF inflight[1].auth /\ (labelled # <<>> \/ data.campaignData # <<>>)
                   THEN TRUE ELSE isSaving
    /\ uploadAuth' = isAuthenticated
    /\ hist' = [op |-> "uploadOk", before |-> assets,
                seen |-> inflight[1].assets, file |-> <<inflight[1].file>>]
    /\ inflight' = <<>>
    /\ UNCHANGED <<error, abGroupBy, perfGroupBy, viewState, file, parsed,
                   isAuthenticated, showAuthModal, timers, store, faults, lastSave>>

UploadAccepted_For(data) ==
    UploadAccepted_With(data, IF data.rejected THEN <<>>
                              ELSE assetsWithLabels(data.brandAssets, inflight[1].assets))

UploadAccepted ==
    /\ inflight # <<>>
    /\ UploadAccepted_For(parseExcelFile(inflight[1].file))

\* App.tsx:57-109: handleFileUpload after the await
FinishUpload ==
    \/ UploadRejected
    \/ UploadUnusable
    \/ UploadAccepted

\* App.tsx:112-127
handleUpdateAsset(assetId, updates) ==
    /\ isAuthenticated => Len(ops) < MaxOps
    /\ assets' = [ i \in DOMAIN assets |->
                     IF assets[i].assetId = assetId
                     THEN ApplyUpdates(assets[i], updates) ELSE assets[i] ]
    /\ saveStatus' = "idle"
    /\ ops' = IF isAuthenticated THEN updateAssetLabels(assetId, updates) ELSE ops
    /\ uploadAuth' = isAuthenticated
    /\ hist' = [op |-> "update", before |-> <<>>, seen |-> <<>>, file |-> <<>>]
    /\ UNCHANGED <<campaignData, error, warnings, inflight, abGroupBy,
                   perfGroupBy, viewState, file, parsed, isAuthenticated, showAuthModal,
                   timers, store, faults, isSaving, lastSave>>

\* App.tsx:133-140: handleSave up to the await; its button is there while
\* hasData (App.tsx:148, 174) and enabled while not isSaving (App.tsx:177)
handleSave ==
    /\ assets # <<>> \/ campaignData # <<>>
    /\ ~isSaving
    /\ isAuthenticated => Len(ops) + timers < MaxOps
    /\ IF ~isAuthenticated
       THEN /\ showAuthModal' = TRUE
            /\ UNCHANGED <<saveStatus, ops, isSaving>>
       ELSE /\ saveStatus' = "saving"
            /\ ops' = saveData(assets, campaignData, "handleSave")
            /\ isSaving' = TRUE
            /\ UNCHANGED showAuthModal
    /\ hist' = [op |-> "save", before |-> <<>>, seen |-> <<>>, file |-> <<>>]
    /\ UNCHANGED <<assets, campaignData, error, warnings, inflight, abGroupBy,
                   perfGroupBy, viewState, file, parsed, isAuthenticated, uploadAuth,
                   timers, store, faults, lastSave>>

\* a request comes back: with an error (ok = FALSE) or with what it asked for
Answer(ok) ==
    /\ ~ok => faults < MaxFaults
    /\ faults' = IF ok THEN faults ELSE faults + 1

Remove(q, k) == [ j \in 1..(Len(q) - 1) |-> IF j < k THEN q[j] ELSE q[j + 1] ]

AppUnchanged ==
    UNCHANGED <<assets, campaignData, error, warnings, inflight, hist,
                abGroupBy, perfGroupBy, viewState, file, parsed, isAuthenticated,
                uploadAuth, showAuthModal>>

\* saveData goes on to its next request
SaveContinues(k, pc, i, ok, newStore) ==
    /\ ops' = [ops EXCEPT ![k] = [@ EXCEPT !.pc = pc, !.i = i,
                                           !.requestFailed = @ \/ ~ok]]
    /\ store' = newStore
    /\ UNCHANGED <<saveStatus, timers, isSaving, lastSave>>
    /\ AppUnchanged

\* useDataPersistence.ts:122-129 and App.tsx:141-146: saveData returns and,
\* when handleSave awaited it, handleSave sets the status and the timer
SaveReturns(k, success, ok, newStore) ==
    /\ ops' = Remove(ops, k)
    /\ store' = newStore
    /\ lastSave' = << [ success |-> success,
                        requestFailed |-> ops[k].requestFailed \/ ~ok,
                        assets |-> ops[k].assets,
                        campaignData |-> ops[k].campaignData,
                        caller |-> ops[k].caller,
                        overlapped |-> ops[k].overlapped ] >>
    /\ saveStatus' = IF ops[k].caller = "handleSave"
                     THEN (IF success THEN "saved" ELSE "error")
                     ELSE saveStatus
    /\ timers' = IF ops[k].caller = "handleSave" /\ success
                 THEN timers + 1 ELSE timers
    /\ isSaving' = FALSE
    /\ AppUnchanged

\* useDataPersistence.ts:60  delete on brand_assets; the error the request
\* returns is not read
SaveDeleteAssets(k, ok) ==
    /\ ops[k].pc = "deleteAssets"
    /\ Answer(ok)
    /\ SaveContinues(k, "deleteCampaigns", 0, ok,
                     IF ok THEN [store EXCEPT !.assets = <<>>] ELSE store)

\* useDataPersistence.ts:61  delete on campaign_data, then the branch to the
\* first insert (64, 84) or to the return (123)
SaveDeleteCampaigns_With(k, ok, newStore) ==
    IF ops[k].assets # <<>>
    THEN SaveContinues(k, "insertAssets", 0, ok, newStore)
    ELSE IF ops[k].campaignData # <<>>
    THEN SaveContinues(k, "insertCampaigns", 0, ok, newStore)
    ELSE SaveReturns(k, TRUE, ok, newStore)

SaveDeleteCampaigns(k, ok) ==
    /\ ops[k].pc = "deleteCampaigns"
    /\ Answer(ok)
    /\ SaveDeleteCampaigns_With(k, ok,
            IF ok THEN [store EXCEPT !.campaigns = <<>>] ELSE store)

\* useDataPersistence.ts:64-80  insert into brand_assets; an error is thrown
\* and caught at 124
SaveInsertAssets_With(k, accepted, newStore) ==
    IF ~accepted
    THEN SaveReturns(k, FALSE, FALSE, store)
    ELSE IF ops[k].campaignData # <<>>
    THEN SaveContinues(k, "insertCampaigns", 0, TRUE, newStore)
    ELSE SaveReturns(k, TRUE, TRUE, newStore)

SaveInsertAssets(k, ok) ==
    /\ ops[k].pc = "insertAssets"
    /\ Answer(ok)
    /\ SaveInsertAssets_With(k,
            ok /\ UniqueAssetIds(store.assets \o ToDbAssets(ops[k].assets)),
            [store EXCEPT !.assets = @ \o ToDbAssets(ops[k].assets)])

\* useDataPersistence.ts:84-118  one turn of the batch loop
SaveInsertCampaigns_With(k, ok, newStore) ==
    IF ~ok
    THEN SaveReturns(k, FALSE, FALSE, store)
    ELSE IF ops[k].i + batchSize < Len(ops[k].campaignData)
    THEN SaveContinues(k, "insertCampaigns", ops[k].i + batchSize, TRUE, newStore)
    ELSE SaveReturns(k, TRUE, TRUE, newStore)

SaveInsertCampaigns(k, ok) ==
    /\ ops[k].pc = "insertCampaigns"
    /\ Answer(ok)
    /\ SaveInsertCampaigns_With(k, ok,
            [store EXCEPT !.campaigns = @ \o Batch(ops[k].campaignData, ops[k].i)])

\* useDataPersistence.ts:215-224  update on brand_assets; a key that is
\* undefined is not sent
UpdateLabels(k, ok) ==
    /\ ops[k].pc = "updateLabels"
    /\ Answer(ok)
    /\ ops' = Remove(ops, k)
    /\ store' = IF ~ok THEN store
                ELSE [store EXCEPT !.assets =
                        [ j \in DOMAIN @ |->
                            IF @[j].asset_id # ops[k].assetId THEN @[j]
                            ELSE [ @[j] EXCEPT
                                     !.creative_name = IF ops[k].updates.creativeName # <<>>
                                                       THEN ops[k].updates.creativeName ELSE @,
                                     !.category = IF ops[k].updates.category # <<>>
                                                  THEN ops[k].updates.category ELSE @ ] ]]
    /\ hist' = [op |-> IF ops[k].overlapped THEN "labelsSentDuringSave"
                       ELSE "labelsSent",
                before |-> <<>>, seen |-> <<>>, file |-> <<>>]
    /\ UNCHANGED <<saveStatus, timers, isSaving, lastSave>>
    /\ UNCHANGED <<assets, campaignData, error, warnings, inflight, abGroupBy,
                   perfGroupBy, viewState, file, parsed, isAuthenticated,
                   uploadAuth, showAuthModal>>

\* App.tsx:144  the timer set after a save that succeeded
SaveStatusTimeout ==
    /\ timers > 0
    /\ timers' = timers - 1
    /\ saveStatus' = "idle"
    /\ UNCHANGED <<ops, store, faults, isSaving, lastSave>>
    /\ AppUnchanged

Next ==
    \/ \E f \in UploadFiles : StartUpload(f)
    \/ FinishUpload
    \/ \E id \in AssetIdPool, u \in UpdatePool : handleUpdateAsset(id, u)
    \/ handleSave

Spec == Init /\ [][Next]_vars

\* the store answers a request of a save in flight
NextSave ==
    \/ \E k \in DOMAIN ops, ok \in BOOLEAN : SaveDeleteAssets(k, ok)
    \/ \E k \in DOMAIN ops, ok \in BOOLEAN : SaveDeleteCampaigns(k, ok)
    \/ \E k \in DOMAIN ops, ok \in BOOLEAN : SaveInsertAssets(k, ok)
    \/ \E k \in DOMAIN ops, ok \in BOOLEAN : SaveInsertCampaigns(k, ok)

\* a signed-in user saves by hand
NextStore ==
    \/ handleSave
    \/ NextSave
    \/ SaveStatusTimeout

\* a signed-in user uploads files
NextUpload ==
    \/ \E f \in StoreFiles : StartUpload(f)
    \/ FinishUpload
    \/ NextSave

SpecUpload == InitStore /\ [][NextUpload]_vars
SpecStore == InitStore /\ [][NextStore]_vars

\* parseExcel.ts:34-75: the promise of parseExcelFile(file) settles
ParseFile ==
    /\ file # <<>>
    /\ parsed = <<>>
    /\ parsed' = << parseExcelFile(file[1]) >>
    /\ UNCHANGED <<assets, campaignData, error, warnings, inflight, hist,
                   abGroupBy, perfGroupBy, viewState, file>>
    /\ UNCHANGED storeVars

\* ABTestView.tsx:39  setGroupBy
SetGroupBy(g) ==
    /\ abGroupBy' = g
    /\ UNCHANGED <<assets, campaignData, error, warnings, inflight, hist,
                   perfGroupBy, viewState, file, parsed>>
    /\ UNCHANGED storeVars

\* PerformanceDashboard.tsx:45  setGroupBy
SetPerfGroupBy(g) ==
    /\ perfGroupBy' = g
    /\ UNCHANGED <<assets, campaignData, error, warnings, inflight, hist,
                   abGroupBy, viewState, file, parsed>>
    /\ UNCHANGED storeVars

NextAB == \E g \in GroupByTargets : SetGroupBy(g)

NextPerf == \E g \in PerfGroupBys : SetPerfGroupBy(g)

NextViews ==
    \/ \E g \in GroupByTargets : SetGroupBy(g)
    \/ \E g \in PerfGroupBys : SetPerfGroupBy(g)

SpecWinner  == InitWinner /\ [][NextAB]_vars
SpecKeyword == InitKeyword /\ [][NextAB]_vars
SpecAsin    == InitAsin /\ [][NextAB]_vars
SpecPerf    == InitPerf /\ [][NextPerf]_vars
SpecAds     == InitAds /\ [][NextPerf]_vars
SpecParse   == InitParse /\ [][ParseFile]_vars
SpecFields  == InitFields /\ [][ParseFile]_vars
SpecMetrics == InitMetrics /\ [][ParseFile]_vars
SpecTargets == InitTargets /\ [][NextAB]_vars
SpecAssets  == InitAssets /\ [][ParseFile]_vars
SpecPlaceholder == InitPlaceholder /\ [][ParseFile]_vars
SpecRatios  == InitRatios /\ [][NextViews]_vars

(***************************************************************************)
(* Properties of the competitive view                                      *)
(***************************************************************************)
RECURSIVE SumIdx(_, _)
SumIdx(f, I) ==
    IF I = {} THEN 0
    ELSE LET i == CHOOSE x \in I : TRUE IN f[i] + SumIdx(f, I \ {i})

Spends      == [i \in DOMAIN campaignData |-> campaignData[i].spend]
Saless      == [i \in DOMAIN campaignData |-> campaignData[i].sales]
Impressionss == [i \in DOMAIN campaignData |-> campaignData[i].impressions]
Clickss     == [i \in DOMAIN campaignData |-> campaignData[i].clicks]
Orderss     == [i \in DOMAIN campaignData |-> campaignData[i].orders]
Unitss      == [i \in DOMAIN campaignData |-> campaignData[i].units]

\* the records of campaignData that were given the group key k and belong to
\* the creative with asset id v
RecordsOf(k, v) ==
    { i \in DOMAIN campaignData :
        LET t == ResolveTarget(campaignData[i], abGroupBy, assets)
        IN  /\ t # <<>>
            /\ groupKey(t[1]) = k
            /\ campaignData[i].videoAssetIds = v }

AggSpend(g, c) == SumIdx(Spends, RecordsOf(g.key, c.videoAssetId))
AggSales(g, c) == SumIdx(Saless, RecordsOf(g.key, c.videoAssetId))
AggRoas(g, c)  == IF AggSpend(g, c) > 0 THEN <<AggSales(g, c), AggSpend(g, c)>>
                  ELSE <<0, 1>>

Groups == { abTestGroups[i] : i \in DOMAIN abTestGroups }
Creatives(g) == { g.creatives[i] : i \in DOMAIN g.creatives }
Winners(g) == { c \in Creatives(g) : c.isWinner }
Eligible(g) == { c \in Creatives(g) : AggSpend(g, c) >= MIN_SPEND_FOR_WINNER }

\* C1: in every competitive group, a creative flagged isWinner has aggregated
\* spend >= 10 and no other creative of the group with aggregated spend >= 10
\* has a greater roas; a creative with spend < 10 is never flagged, whatever
\* its roas.
C1_WinnerClearsThreshold ==
    \A g \in Groups : \A c \in Winners(g) :
        /\ AggSpend(g, c) >= MIN_SPEND_FOR_WINNER
        /\ \A d \in Eligible(g) : ~QGt(AggRoas(g, d), AggRoas(g, c))

\* a group of two creatives whose winner has a lower roas than the other one,
\* which spent less than the threshold
C1_Witness ==
    \E g \in Groups : \E c \in Winners(g) : \E d \in Creatives(g) :
        /\ Len(g.creatives) >= 2
        /\ AggSpend(g, d) < MIN_SPEND_FOR_WINNER
        /\ ~d.isWinner
        /\ QGt(AggRoas(g, d), AggRoas(g, c))

\* C2: every competitive group has at most one creative flagged isWinner, and
\* none when it has exactly one creative or when no creative of it has
\* aggregated spend >= 10.
C2_AtMostOneWinner ==
    \A g \in Groups :
        /\ Cardinality(Winners(g)) <= 1
        /\ Len(g.creatives) = 1 => Winners(g) = {}
        /\ Eligible(g) = {} => Winners(g) = {}

\* a group of exactly one creative that clears the threshold and is not flagged
C2_Witness ==
    \E g \in Groups :
        /\ Len(g.creatives) = 1
        /\ Eligible(g) # {}
        /\ Winners(g) = {}

\* the records of campaignData selected by the set of indices I, summed
GroupSpend(I) == SumIdx(Spends, I)
GroupImpressions(I) == SumIdx(Impressionss, I)

\* C5: under keyword grouping, two records with a non-empty keywordText are in
\* the same competitive group if and only if they have the same keywordText and
\* the same matchType: there is exactly one group per distinct pair, it carries
\* that pair, and its totals are the sums over the records of that pair.
KeywordPairs ==
    { <<campaignData[i].keywordText, campaignData[i].matchType>> :
        i \in { j \in DOMAIN campaignData : campaignData[j].keywordText # <<>> } }
RecordsOfPair(p) ==
    { i \in DOMAIN campaignData :
        campaignData[i].keywordText = p[1] /\ campaignData[i].matchType = p[2] }
C5_KeywordGroupsByTextAndMatchType ==
    abGroupBy = "keyword" =>
        /\ Len(abTestGroups) = Cardinality(KeywordPairs)
        /\ \A p \in KeywordPairs : \E g \in Groups :
              /\ g.target = p[1]
              /\ g.matchType = p[2]
              /\ g.totalSpend = GroupSpend(RecordsOfPair(p))
              /\ g.totalImpressions = GroupImpressions(RecordsOfPair(p))

\* the part of C5 about one keyword text: records with the same keyword text
\* and different match types are in different groups
C5_SameTextSplitByMatchType ==
    abGroupBy = "keyword" =>
        \A p \in KeywordPairs : \A q \in KeywordPairs :
            (p[1] = q[1] /\ p[2] # q[2]) =>
                \E g \in Groups : \E h \in Groups :
                    /\ g # h
                    /\ g.target = p[1] /\ g.matchType = p[2]
                    /\ h.target = q[1] /\ h.matchType = q[2]

\* C6: under ASIN grouping the target of a record is the upper-cased code
\* matched in productTargetingExpression, productTargetingId is scanned only
\* when the expression yields no match, and a record without a match in either
\* field is in no group: the groups are exactly the distinct codes, each with
\* the totals of the records that resolve to it.
ExpressionCode(r) ==
    IF r.productTargetingExpression = <<>> THEN <<>>
    ELSE MatchAsinExpression(r.productTargetingExpression)
IdCode(r) ==
    IF r.productTargetingId = <<>> THEN <<>> ELSE MatchAsinId(r.productTargetingId)
ClaimedAsin(r) ==
    IF ExpressionCode(r) # <<>> THEN toUpperCase(ExpressionCode(r))
    ELSE IF IdCode(r) # <<>> THEN toUpperCase(IdCode(r))
    ELSE <<>>
AsinCodes ==
    { ClaimedAsin(campaignData[i]) : i \in DOMAIN campaignData } \ { <<>> }
RecordsOfCode(a) ==
    { i \in DOMAIN campaignData : ClaimedAsin(campaignData[i]) = a }
C6_AsinTargetResolution ==
    abGroupBy = "asin" =>
        /\ Len(abTestGroups) = Cardinality(AsinCodes)
        /\ \A g \in Groups : g.target \in AsinCodes /\ g.targetType = "asin"
        /\ \A a \in AsinCodes : \E g \in Groups :
              /\ g.target = a
              /\ g.totalSpend = GroupSpend(RecordsOfCode(a))
              /\ g.totalImpressions = GroupImpressions(RecordsOfCode(a))

\* three records: a lower-case code in the expression beside a code in the
\* targeting id, a code in the targeting id alone, and no code at all
C6_Witness ==
    /\ abGroupBy = "asin"
    /\ \E i, j, k \in DOMAIN campaignData :
          /\ ExpressionCode(campaignData[i]) # <<>>
          /\ ExpressionCode(campaignData[i]) # toUpperCase(ExpressionCode(campaignData[i]))
          /\ IdCode(campaignData[i]) # <<>>
          /\ ExpressionCode(campaignData[j]) = <<>>
          /\ campaignData[j].productTargetingExpression # <<>>
          /\ IdCode(campaignData[j]) # <<>>
          /\ ClaimedAsin(campaignData[k]) = <<>>
    /\ Len(abTestGroups) = 2

(***************************************************************************)
(* Properties of the performance view                                      *)
(***************************************************************************)
Rows == { aggregatedData[i] : i \in DOMAIN aggregatedData }
All == DOMAIN campaignData

\* the label and the category a record is shown under: those of the asset its
\* videoAssetIds matches exactly, the fallbacks when there is no such asset or
\* its label is empty
Unmatched(i) == assetMapGet(assets, campaignData[i].videoAssetIds) = <<>>
ShownLabel(i) ==
    IF Unmatched(i) \/ OptCreativeName(assetMapGet(assets, campaignData[i].videoAssetIds)) = <<>>
    THEN T_Unlabeled
    ELSE assetMapGet(assets, campaignData[i].videoAssetIds)[1].creativeName
ShownCategory(i) ==
    IF Unmatched(i) \/ OptCategory(assetMapGet(assets, campaignData[i].videoAssetIds)) = <<>>
    THEN T_Uncategorized
    ELSE assetMapGet(assets, campaignData[i].videoAssetIds)[1].category
ShownUnder(i) == IF perfGroupBy = "creative" THEN ShownLabel(i) ELSE ShownCategory(i)
RecordsOfRow(row) == { i \in All : ShownUnder(i) = row.name }
RecordsOfAd(row, ad) ==
    { i \in RecordsOfRow(row) :
        /\ campaignData[i].adName = ad.adName
        /\ campaignData[i].campaignName = ad.campaignName
        /\ campaignData[i].adGroupName = ad.adGroupName }

\* q is n / d when d > 0 and 0 otherwise
IsRatio(q, n, d) == IF d > 0 THEN q[1] * d = n * q[2] ELSE q[1] = 0

\* C3 (as claimed): the grand-total ROAS is (sum of sales over all records) /
\* (sum of spend over all records), and 0 when that spend sum is 0.
C3_TotalRoasIsRatioOfSums ==
    IF SumIdx(Spends, All) = 0 THEN totalRoas[1] = 0
    ELSE totalRoas[1] * SumIdx(Spends, All) = SumIdx(Saless, All) * totalRoas[2]

\* C4: every aggregated row, every per-ad entry and every creative of the
\* competitive view has its ratios recomputed from its own summed raw metrics:
\* ctr = clicks / impressions * 100, conversionRate = orders / clicks * 100,
\* cpc = spend / clicks, roas = sales / spend, each 0 when its denominator is
\* not positive.
C4_RowRatios ==
    \A row \in Rows :
        LET I == RecordsOfRow(row)
        IN  /\ IsRatio(row.ctr, SumIdx(Clickss, I) * 100, SumIdx(Impressionss, I))
            /\ IsRatio(row.conversionRate, SumIdx(Orderss, I) * 100, SumIdx(Clickss, I))
            /\ IsRatio(row.cpc, SumIdx(Spends, I), SumIdx(Clickss, I))
            /\ IsRatio(row.roas, SumIdx(Saless, I), SumIdx(Spends, I))
C4_AdRatios ==
    \A row \in Rows : \A k \in DOMAIN row.ads :
        LET I == RecordsOfAd(row, row.ads[k])
        IN  /\ IsRatio(row.ads[k].ctr, SumIdx(Clickss, I) * 100, SumIdx(Impressionss, I))
            /\ IsRatio(row.ads[k].conversionRate, SumIdx(Orderss, I) * 100, SumIdx(Clickss, I))
            /\ IsRatio(row.ads[k].roas, SumIdx(Saless, I), SumIdx(Spends, I))
C4_CreativeRatios ==
    \A g \in Groups : \A c \in Creatives(g) :
        LET I == RecordsOf(g.key, c.videoAssetId)
        IN  /\ IsRatio(c.ctr, SumIdx(Clickss, I) * 100, SumIdx(Impressionss, I))
            /\ IsRatio(c.conversionRate, SumIdx(Orderss, I) * 100, SumIdx(Clickss, I))
            /\ IsRatio(c.roas, SumIdx(Saless, I), SumIdx(Spends, I))
C4_RatiosFromSummedMetrics == C4_RowRatios /\ C4_AdRatios /\ C4_CreativeRatios

\* a row summed from several records whose roas is neither 0 nor the
\* platform-supplied roas of its records, beside a row with a zero denominator
C4_Witness ==
    /\ \E row \in Rows :
          /\ Cardinality(RecordsOfRow(row)) >= 2
          /\ row.roas[1] # 0
          /\ \A i \in RecordsOfRow(row) : ~QEq(row.roas, <<campaignData[i].roas, 1>>)
          /\ row.ads # <<>>
    /\ \E row \in Rows : row.clicks = 0 /\ row.spend > 0
    /\ abTestGroups # <<>>

\* C7: no record is dropped by the performance view: a record whose
\* videoAssetIds matches no asset, or an asset with an empty label, is
\* aggregated under 'Unlabeled' (by creative) or 'Uncategorized' (by category),
\* and every record contributes its raw metrics to exactly one row.
C7_NoRecordDropped ==
    /\ \A i \in All : \E row \in Rows : row.name = ShownUnder(i)
    /\ \A j, k \in DOMAIN aggregatedData :
          aggregatedData[j].name = aggregatedData[k].name => j = k
    /\ \A row \in Rows :
          LET I == RecordsOfRow(row)
          IN  /\ row.adCount = Cardinality(I)
              /\ row.impressions = SumIdx(Impressionss, I)
              /\ row.clicks = SumIdx(Clickss, I)
              /\ row.spend = SumIdx(Spends, I)
              /\ row.sales = SumIdx(Saless, I)
              /\ row.orders = SumIdx(Orderss, I)
              /\ row.units = SumIdx(Unitss, I)

\* a record without an asset and a record whose asset has no label share the
\* fallback row, beside a labelled row
C7_Witness ==
    /\ \E i, j \in All :
          /\ Unmatched(i)
          /\ ~Unmatched(j)
          /\ ShownUnder(i) = ShownUnder(j)
          /\ ShownUnder(i) \in {T_Unlabeled, T_Uncategorized}
    /\ Len(aggregatedData) = 2

(***************************************************************************)
(* Properties of the parser                                                *)
(***************************************************************************)
Resolved == parsed # <<>> /\ ~parsed[1].rejected
Book == file[1]

\* the cells of a row under the asset-id headers, whatever the case of the
\* header, and the row having nothing but blanks there
AssetIdAliases == { toLowerCase(K_videoAssetIds[i]) : i \in DOMAIN K_videoAssetIds }
AssetIdCells(row) ==
    { row[i][2] : i \in { j \in DOMAIN row : toLowerCase(row[j][1]) \in AssetIdAliases } }
RowBlank(row) ==
    \A c \in AssetIdCells(row) : c.t = "u" \/ trim(CellText(c)) = <<>>

\* C9: every record of the returned performance set has a videoAssetIds that
\* is non-empty after trimming, and the set holds no more records than the
\* sheet it was read from has rows whose asset-id column is not blank.
C9_NoRecordWithoutAssetId ==
    Resolved =>
        /\ \A i \in DOMAIN parsed[1].campaignData :
              trim(parsed[1].campaignData[i].videoAssetIds) # <<>>
        /\ parsed[1].campaignData # <<>> =>
              LET src  == findSheet(Book, parsed[1].parseInfo.campaignDataSource[1])
                  rows == Book.sheets[src].objects
              IN  Len(parsed[1].campaignData)
                    <= Cardinality({ k \in DOMAIN rows : ~RowBlank(rows[k]) })

\* a sheet with a blank row and a filled row, parsed into one record
C9_Witness ==
    /\ Resolved
    /\ Len(parsed[1].campaignData) = 1
    /\ \E i \in DOMAIN Book.sheets :
          /\ Len(Book.sheets[i].objects) = 2
          /\ \E k \in DOMAIN Book.sheets[i].objects : RowBlank(Book.sheets[i].objects[k])
          /\ toLowerCase(Book.sheets[i].name)
               = toLowerCase(parsed[1].parseInfo.campaignDataSource[1])

\* C10: the 'missing performance sheet' warning is emitted exactly when the
\* workbook has no candidate sheet, the 'no video-linked rows' warning exactly
\* when it has one and no row of a candidate sheet qualifies; neither when a
\* record was extracted; never both.
CandidateSheets ==
    { i \in DOMAIN Book.sheets :
        \E k \in DOMAIN sheetPatterns :
            toLowerCase(Book.sheets[i].name) = toLowerCase(sheetPatterns[k]) }
SomeRowQualifies ==
    \E i \in CandidateSheets : \E k \in DOMAIN Book.sheets[i].objects :
        RowAccepted(Book.sheets[i].objects[k])
Emitted(w) ==
    Cardinality({ i \in DOMAIN parsed[1].parseInfo.warnings :
                    parsed[1].parseInfo.warnings[i] = w })
C10_DistinctSheetWarnings ==
    Resolved =>
        /\ Emitted(W_MissingSB) = (IF CandidateSheets = {} THEN 1 ELSE 0)
        /\ Emitted(W_NoVideoAds)
             = (IF CandidateSheets # {} /\ ~SomeRowQualifies THEN 1 ELSE 0)
        /\ parsed[1].campaignData # <<>> =>
              Emitted(W_MissingSB) = 0 /\ Emitted(W_NoVideoAds) = 0
        /\ ~(Emitted(W_MissingSB) > 0 /\ Emitted(W_NoVideoAds) > 0)

\* a workbook with both candidate sheets, none with a qualifying row
C10_Witness ==
    /\ Resolved
    /\ Cardinality(CandidateSheets) = 2
    /\ \E i \in CandidateSheets : Book.sheets[i].objects # <<>>
    /\ Emitted(W_NoVideoAds) = 1
    /\ Emitted(W_MissingSB) = 0

(***************************************************************************)
(* Properties of the upload handler                                        *)
(***************************************************************************)
UploadSucceeded == hist.op = "uploadOk"
Previous == hist.before
Report   == parseExcelFile(hist.file[1]).brandAssets
IdsOf(as) == { as[i].assetId : i \in DOMAIN as }

\* the relation between an old asset set, the assets of the report and the
\* new asset set
LabelsCarried(old, report, new) ==
    /\ \A i \in DOMAIN new :
          /\ \A j \in DOMAIN old :
                old[j].assetId = new[i].assetId /\ HasLabel(old[j]) =>
                    /\ new[i].creativeName = old[j].creativeName
                    /\ new[i].category = old[j].category
          /\ new[i].assetId \notin IdsOf(old) => ~HasLabel(new[i])
    /\ IdsOf(new) = IdsOf(report)

\* C8: after an upload succeeds, every asset of the new set whose id was in
\* the set loaded immediately before with a label carries that label, every
\* asset whose id was not loaded before has empty labels, and no id absent
\* from the new report is in the new state.
C8_LabelsPreservedAcrossUpload ==
    UploadSucceeded => LabelsCarried(Previous, Report, assets)

\* the same relation towards the asset set the handler was created with
LabelsCarriedFromRequest ==
    UploadSucceeded => LabelsCarried(hist.seen, Report, assets)

(***************************************************************************)
(* Properties of the fallback synthesis                                    *)
(***************************************************************************)
\* the pieces of a text between its commas, trimmed, the empty ones left out
CommaCuts(s) == {0, Len(s) + 1} \cup { i \in DOMAIN s : s[i] = "," }
IdsNamedBy(s) ==
    { trim(SubSeq(s, a + 1, b - 1)) :
        <<a, b>> \in { c \in CommaCuts(s) \X CommaCuts(s) :
                         /\ c[1] < c[2]
                         /\ \A k \in CommaCuts(s) : ~(c[1] < k /\ k < c[2]) } }
    \ { <<>> }
IdsReferenced ==
    UNION { IdsNamedBy(parsed[1].campaignData[i].videoAssetIds) :
              i \in DOMAIN parsed[1].campaignData }
Extracted == parseBrandAssets(Book, <<>>).assets
FallbackCase == parsed[1].campaignData # <<>> /\ Extracted = <<>>
IsPlaceholderList(as) ==
    /\ Cardinality(IdsOf(as)) = Len(as)
    /\ IdsOf(as) = IdsReferenced
    /\ \A i \in DOMAIN as :
          as[i].assetUrl = <<>> /\ as[i].creativeName = <<>> /\ as[i].category = <<>>

\* C11 as stated: with records and no extracted asset the asset list is one
\* placeholder per distinct trimmed non-empty id named by the records and the
\* thumbnails warning is recorded; otherwise the list is the extracted assets
\* and the warning is not recorded.
C11_PlaceholdersAndWarning ==
    Resolved =>
        IF FallbackCase
        THEN IsPlaceholderList(parsed[1].brandAssets) /\ Emitted(W_NoThumbnails) = 1
        ELSE parsed[1].brandAssets = Extracted /\ Emitted(W_NoThumbnails) = 0

\* C11 amended: as above, the warning being recorded exactly when at least
\* one placeholder was synthesized.
C11_WarningOnlyWithPlaceholders ==
    Resolved =>
        IF FallbackCase
        THEN /\ IsPlaceholderList(parsed[1].brandAssets)
             /\ Emitted(W_NoThumbnails) = (IF IdsReferenced # {} THEN 1 ELSE 0)
        ELSE parsed[1].brandAssets = Extracted /\ Emitted(W_NoThumbnails) = 0

\* two records naming the same id and another one, two placeholders made
C11_Witness ==
    /\ Resolved
    /\ FallbackCase
    /\ Len(parsed[1].campaignData) = 2
    /\ IdsNamedBy(parsed[1].campaignData[1].videoAssetIds)
         \cap IdsNamedBy(parsed[1].campaignData[2].videoAssetIds) # {}
    /\ Len(parsed[1].brandAssets) = 2
    /\ Emitted(W_NoThumbnails) = 1

(***************************************************************************)
(* Properties of the asset parser                                          *)
(***************************************************************************)
AssetGridOf(book) == book.sheets[findSheet(book, S_BrandAssets)].grid
HeaderRowOf(grid) ==
    CHOOSE i \in DOMAIN grid :
        /\ CellAt(grid[i], 0) = Str(H_AssetType)
        /\ \A j \in 1..(i - 1) : CellAt(grid[j], 0) # Str(H_AssetType)
DataRows == LET g == AssetGridOf(Book) IN SubSeq(g, HeaderRowOf(g) + 1, Len(g))

\* the text of a cell, a missing cell having none
TextOf(c) == IF c.t = "u" THEN <<>> ELSE CellText(c)
IdNonEmpty(row)   == trim(TextOf(CellAt(row, 2))) # <<>>
TypeExact(row)    == CellAt(row, 0).t = "s" /\ CellAt(row, 0).s \in AssetTypes
TypeTrimmed(row)  == CellAt(row, 0).t = "s" /\ trim(CellAt(row, 0).s) \in AssetTypes
IdTruthy(row)     == Truthy(CellAt(row, 2))

\* the ids of the data rows a test lets through, in row order
IdsLetThrough(rows, Test(_)) ==
    LET kept == SelectSeq(rows, Test)
    IN  [ i \in DOMAIN kept |-> trim(TextOf(CellAt(kept[i], 2))) ]
ReturnedIds == [ i \in DOMAIN parsed[1].brandAssets |-> parsed[1].brandAssets[i].assetId ]
OriginalTest(row) == IdNonEmpty(row) /\ TypeExact(row)
AmendedTest(row)  == IdTruthy(row) /\ IdNonEmpty(row) /\ TypeTrimmed(row)
SilentAndUnlabelled ==
    /\ parsed[1].parseInfo.warnings = CampaignWarnings(Book, parsed[1].campaignData)
    /\ \A i \in DOMAIN parsed[1].brandAssets :
          /\ parsed[1].brandAssets[i].creativeName = <<>>
          /\ parsed[1].brandAssets[i].category = <<>>

\* C13 as stated: the returned assets are those of the data rows whose id
\* cell is non-empty after trimming and whose type cell is exactly one of the
\* five literals, no row adds a warning, every asset has empty labels.
C13_AssetRowAccepted ==
    Resolved => ReturnedIds = IdsLetThrough(DataRows, OriginalTest) /\ SilentAndUnlabelled

\* C13 amended: the returned assets are those of the data rows whose id cell
\* is neither missing, empty nor the number 0 and is non-empty after trimming
\* and whose type cell, after trimming, is one of the five literals, each with
\* a type among the five literals; no row adds a warning, every asset has
\* empty labels.
C13_AssetRowAcceptedTrimmed ==
    Resolved =>
        /\ ReturnedIds = IdsLetThrough(DataRows, AmendedTest)
        /\ \A i \in DOMAIN parsed[1].brandAssets :
              parsed[1].brandAssets[i].assetType \in AssetTypes
        /\ SilentAndUnlabelled

\* a sheet with a row that is let through and a row of an unknown type
C13_Witness ==
    /\ Resolved
    /\ Len(parsed[1].brandAssets) = 1
    /\ Len(DataRows) = 2
    /\ \E k \in DOMAIN DataRows : CellAt(DataRows[k], 0) = Str(T_Audio)

\* C12: no two assets of the asset set a parse returns have the same assetId.
C12_AssetIdsUnique ==
    Resolved => Cardinality(IdsOf(parsed[1].brandAssets)) = Len(parsed[1].brandAssets)

(***************************************************************************)
(* Properties of the competitive view: ties and target resolution          *)
(***************************************************************************)
FirstRecord(g, c) ==
    CHOOSE i \in RecordsOf(g.key, c.videoAssetId) :
        \A j \in RecordsOf(g.key, c.videoAssetId) : i <= j
BestEligible(g) ==
    { c \in Eligible(g) : \A d \in Eligible(g) : ~QGt(AggRoas(g, d), AggRoas(g, c)) }

\* C19: when several creatives of a group with spend >= 10 tie for the
\* greatest roas, the one flagged isWinner is the one whose first record comes
\* earliest in the input, and one is flagged (the roas being above -1, where
\* the scan starts).
C19_TieGoesToFirstEncountered ==
    \A g \in Groups :
        Cardinality(BestEligible(g)) >= 2 =>
            /\ \A w \in Winners(g) : \A c \in BestEligible(g) :
                  FirstRecord(g, w) <= FirstRecord(g, c)
            /\ (\E c \in BestEligible(g) : QGt(AggRoas(g, c), <<-1, 1>>)) => Winners(g) # {}

\* two creatives tie at the greatest roas, the flagged one has more records
\* behind it and a later second record
C19_Witness ==
    \E g \in Groups : \E w \in Winners(g) : \E c \in BestEligible(g) :
        /\ c # w
        /\ QEq(AggRoas(g, c), AggRoas(g, w))
        /\ FirstRecord(g, w) < FirstRecord(g, c)
        /\ \E j \in RecordsOf(g.key, w.videoAssetId) : j > FirstRecord(g, c)

\* the field a grouping reads the target from
NameField(r) ==
    IF abGroupBy = "campaign" THEN r.campaignName
    ELSE IF abGroupBy = "adgroup" THEN r.adGroupName
    ELSE r.keywordText
CategoryOf(r) ==
    LET hit == { k \in DOMAIN assets : assets[k].assetId = r.videoAssetIds }
    IN  IF hit = {} \/ \A k \in hit : assets[k].category = <<>>
        THEN T_Uncategorized
        ELSE assets[CHOOSE k \in hit : \A m \in hit : m <= k].category
GroupsOfTarget(t) == { g \in Groups : g.target = t }
CountWhere(Test(_)) == Cardinality({ i \in DOMAIN campaignData : Test(campaignData[i]) })

\* C20: under campaign, adgroup or keyword grouping the records of a group
\* are the records whose name field is its target, one group per non-empty
\* name, and a record with an empty name is in no group; under category
\* grouping every record is in exactly one group, that of its asset's
\* category, 'Uncategorized' when the lookup yields none.
C20_TargetResolution ==
    /\ abGroupBy \in {"campaign", "adgroup", "keyword"} =>
          /\ \A i \in DOMAIN campaignData :
                LET n == NameField(campaignData[i])
                IN  Cardinality(GroupsOfTarget(n)) = (IF n # <<>> THEN 1 ELSE 0)
          /\ \A g \in Groups :
                LET InGroup(r) == NameField(r) = g.target
                IN  g.target # <<>> /\ g.totalImpressions = CountWhere(InGroup)
          /\ Cardinality(Groups) = Len(abTestGroups)
    /\ abGroupBy = "category" =>
          /\ \A i \in DOMAIN campaignData :
                Cardinality(GroupsOfTarget(CategoryOf(campaignData[i]))) = 1
          /\ \A g \in Groups :
                LET InGroup(r) == CategoryOf(r) = g.target
                IN  g.totalImpressions = CountWhere(InGroup)
          /\ Cardinality(Groups) = Len(abTestGroups)

\* under category grouping a record without any name is in the group of its
\* asset's category and two records without a category are in 'Uncategorized'
C20_Witness ==
    /\ abGroupBy = "category"
    /\ assets # <<>>
    /\ \E i \in DOMAIN campaignData :
          /\ campaignData[i].campaignName = <<>>
          /\ campaignData[i].adGroupName = <<>>
          /\ campaignData[i].keywordText = <<>>
          /\ CategoryOf(campaignData[i]) = Cat1
    /\ \E g \in Groups : g.target = T_Uncategorized /\ g.totalImpressions = 2
    /\ \E g \in Groups : g.target = Cat1 /\ g.totalImpressions = 1

(***************************************************************************)
(* Properties of the parsed metrics                                        *)
(***************************************************************************)
\* C18: every record the parser returns has impressions, clicks, orders,
\* units, spend and sales that are not negative, the first four integers.
C18_MetricsNonNegative ==
    Resolved =>
        \A i \in DOMAIN parsed[1].campaignData :
            LET r == parsed[1].campaignData[i]
            IN  /\ r.impressions \in Nat /\ r.clicks \in Nat
                /\ r.orders \in Nat /\ r.units \in Nat
                /\ r.spend >= 0 /\ r.sales >= 0

(***************************************************************************)
(* Properties of the upload handler's failure paths                        *)
(***************************************************************************)
\* the step in which a handleFileUpload whose parse was rejected runs on
RejectedFinish ==
    /\ inflight # <<>>
    /\ parseExcelFile(inflight[1].file).rejected
    /\ inflight' = <<>>

\* C14: when parseExcelFile rejects, the upload handler sets an error
\* message, leaves the assets and the performance records in memory as they
\* were, and starts no save to the store.
C14_RejectedUploadKeepsState ==
    [][ RejectedFinish =>
          /\ error' # <<>>
          /\ assets' = assets
          /\ campaignData' = campaignData
          /\ ops' = ops /\ store' = store ]_vars

\* a rejected upload has run in a signed-in session that held assets and
\* records, and they are still there beside the message
C14_Witness ==
    /\ hist.op = "uploadFailed"
    /\ isAuthenticated
    /\ hist.before # <<>>
    /\ assets = hist.before
    /\ campaignData # <<>>
    /\ error = <<E_ParseFailed>>

\* the upload handler has run to its end on a workbook that could be decoded
DecodedUploadFinished == hist.op \in {"uploadOk", "uploadUnusable"}

\* the warnings the parser produced for the workbook of that upload
ParserWarnings == parseExcelFile(hist.file[1]).parseInfo.warnings

\* C15: after the upload handler finishes for a decodable workbook, the
\* warnings list shown to the user holds every warning the parser produced,
\* also when no record was extracted.
C15_ParserWarningsSurfaced ==
    DecodedUploadFinished =>
        \A i \in DOMAIN ParserWarnings :
            \E j \in DOMAIN warnings : warnings[j] = ParserWarnings[i]

(***************************************************************************)
(* Properties of saving                                                    *)
(***************************************************************************)
\* the step in which a saveData call returns to its caller
SaveReturned == Len(ops') < Len(ops)

\* a request of the save that returned was answered with an error
SaveFailed == lastSave'[1].requestFailed

NoNewCall == \A k \in DOMAIN ops' : \E j \in DOMAIN ops : ops'[k] = ops[j]

MemoryKept == assets' = assets /\ campaignData' = campaignData

\* C16: when a save to the store fails, the caller gets an unsuccessful
\* result (handleSave shows the status 'error'), no save is started again in
\* its place, and assets and campaignData in memory are what they were.
C16_FailedSaveReported ==
    [][ SaveReturned /\ SaveFailed =>
          /\ ~lastSave'[1].success
          /\ (lastSave'[1].caller = "handleSave" => saveStatus' = "error")
          /\ NoNewCall
          /\ MemoryKept ]_vars

\* no save starts another call or touches the memory when it returns
SaveKeepsMemory ==
    [][ SaveReturned => NoNewCall /\ MemoryKept ]_vars

\* a result without success that handleSave awaited becomes the status 'error'
ThrownSaveReported ==
    [][ SaveReturned /\ ~lastSave'[1].success =>
          (lastSave'[1].caller = "handleSave" => saveStatus' = "error") ]_vars

ToDbCampaigns(cs) == [ i \in DOMAIN cs |-> ToDbCampaign(cs[i]) ]

CountOf(x, rows) == Cardinality({ i \in DOMAIN rows : rows[i] = x })

\* two tables hold the same rows, each as often in one as in the other
SameRows(s, t) ==
    /\ Len(s) = Len(t)
    /\ \A i \in DOMAIN s : CountOf(s[i], s) = CountOf(s[i], t)

\* C17: after a save that reports success the user's rows in the store are
\* exactly the saved assets and the saved performance records, so that the
\* same save done twice leaves what it leaves done once.
C17_SaveIsFullReplace ==
    [][ SaveReturned /\ lastSave'[1].success =>
          /\ SameRows(store'.assets, ToDbAssets(lastSave'[1].assets))
          /\ SameRows(store'.campaigns, ToDbCampaigns(lastSave'[1].campaignData)) ]_vars

(***************************************************************************)
(* Properties of the per-ad breakdown                                      *)
(***************************************************************************)
SameAd(a, b) ==
    /\ a.adName = b.adName
    /\ a.campaignName = b.campaignName
    /\ a.adGroupName = b.adGroupName

\* C21: within each aggregated row no two per-ad entries share the triple
\* (adName, campaignName, adGroupName), and the impressions, clicks, spend,
\* sales and orders of an entry are the sums over the records of that row
\* that have the entry's triple.
C21_AdBreakdown ==
    \A row \in Rows :
        /\ \A j, k \in DOMAIN row.ads : SameAd(row.ads[j], row.ads[k]) => j = k
        /\ \A j \in DOMAIN row.ads :
              LET I == RecordsOfAd(row, row.ads[j])
              IN  /\ I # {}
                  /\ row.ads[j].impressions = SumIdx(Impressionss, I)
                  /\ row.ads[j].clicks = SumIdx(Clickss, I)
                  /\ row.ads[j].spend = SumIdx(Spends, I)
                  /\ row.ads[j].sales = SumIdx(Saless, I)
                  /\ row.ads[j].orders = SumIdx(Orderss, I)

\* a row holds an entry summed over two records beside an entry of the same
\* ad name under another campaign
C21_Witness ==
    \E row \in Rows : \E j, k \in DOMAIN row.ads :
        /\ j # k
        /\ row.ads[j].adName = row.ads[k].adName
        /\ row.ads[j].campaignName # row.ads[k].campaignName
        /\ Cardinality(RecordsOfAd(row, row.ads[j])) = 2

(***************************************************************************)
(* Properties of the column lookup and of the choice of the sheet          *)
(***************************************************************************)
\* the cell of a row under the header an alias names, case ignored; when
\* several headers of the row are the alias up to case it is the last one
HeadersOf(row, alias) ==
    { i \in DOMAIN row : toLowerCase(row[i][1]) = toLowerCase(alias) }
CellOf(row, alias) ==
    IF HeadersOf(row, alias) = {} THEN Undef
    ELSE row[CHOOSE i \in HeadersOf(row, alias) :
                 \A j \in HeadersOf(row, alias) : j <= i][2]
NonEmptyCell(c) == c.t # "u" /\ ~(c.t = "s" /\ c.s = <<>>)

\* the logical field of a row: the trimmed text of the first alias, in
\* priority order, whose cell is non-empty; the empty text when there is none
FilledAliases(row, aliases) ==
    { i \in DOMAIN aliases : NonEmptyCell(CellOf(row, aliases[i])) }
FieldOf(row, aliases) ==
    IF FilledAliases(row, aliases) = {} THEN <<>>
    ELSE trim(CellText(CellOf(row,
            aliases[CHOOSE i \in FilledAliases(row, aliases) :
                       \A j \in FilledAliases(row, aliases) : i <= j])))

\* the rows of the sheet a candidate name finds, those with an asset id, and
\* the first candidate in priority order that has such a row (0: none)
RowsOfCandidate(k) ==
    LET hits == { i \in DOMAIN Book.sheets :
                    toLowerCase(Book.sheets[i].name) = toLowerCase(sheetPatterns[k]) }
    IN  IF hits = {} THEN <<>>
        ELSE Book.sheets[CHOOSE i \in hits : \A j \in hits : i <= j].objects
WithAssetId(rows) ==
    { i \in DOMAIN rows : FieldOf(rows[i], K_videoAssetIds) # <<>> }
Yielding == { k \in DOMAIN sheetPatterns : WithAssetId(RowsOfCandidate(k)) # {} }
FirstYielding == CHOOSE k \in Yielding : \A j \in Yielding : k <= j

\* the i-th of the rows of a sheet that have an asset id
RECURSIVE NthWithAssetId(_, _)
NthWithAssetId(rows, i) ==
    IF FieldOf(Head(rows), K_videoAssetIds) # <<>>
    THEN (IF i = 1 THEN Head(rows) ELSE NthWithAssetId(Tail(rows), i - 1))
    ELSE NthWithAssetId(Tail(rows), i)

\* C22: the records of one parse all come from one sheet, the first
\* candidate in priority order (its name matched without regard to case)
\* that has a row with a non-empty asset id: one record for each such row of
\* it, in order; the reported source is that candidate's name, and there is
\* no source and no record when no candidate has such a row.
C22_SingleSourceSheet ==
    Resolved =>
        IF Yielding = {}
        THEN /\ parsed[1].campaignData = <<>>
             /\ parsed[1].parseInfo.campaignDataSource = <<>>
        ELSE /\ parsed[1].parseInfo.campaignDataSource = << sheetPatterns[FirstYielding] >>
             /\ Len(parsed[1].campaignData)
                  = Cardinality(WithAssetId(RowsOfCandidate(FirstYielding)))
             /\ \A i \in DOMAIN parsed[1].campaignData :
                   parsed[1].campaignData[i].videoAssetIds
                     = FieldOf(NthWithAssetId(RowsOfCandidate(FirstYielding), i),
                               K_videoAssetIds)

\* both candidate sheets are there, the first in priority has rows but none
\* with an asset id, and the records are those of the second
C22_Witness ==
    /\ Resolved
    /\ RowsOfCandidate(1) # <<>>
    /\ Yielding = {2}
    /\ parsed[1].campaignData # <<>>
    /\ parsed[1].parseInfo.campaignDataSource = << sheetPatterns[2] >>

\* the text fields and the numeric fields of a record with their aliases
TextFields ==
    { <<"campaignId", K_campaignId>>, <<"adGroupId", K_adGroupId>>,
      <<"adId", K_adId>>, <<"keywordId", K_keywordId>>,
      <<"productTargetingId", K_productTargetingId>>,
      <<"productTargetingExpression", K_productTargetingExpression>>,
      <<"campaignName", K_campaignName>>, <<"adGroupName", K_adGroupName>>,
      <<"adName", K_adName>>, <<"keywordText", K_keywordText>>,
      <<"matchType", K_matchType>>, <<"videoAssetIds", K_videoAssetIds>> }
NumFields ==
    { <<"impressions", K_impressions>>, <<"clicks", K_clicks>>,
      <<"spend", K_spend>>, <<"sales", K_sales>>, <<"orders", K_orders>>,
      <<"units", K_units>>, <<"ctr", K_ctr>>,
      <<"conversionRate", K_conversionRate>>, <<"acos", K_acos>>,
      <<"cpc", K_cpc>>, <<"roas", K_roas>> }

\* a text that is a number: a run of digits, with a sign or without
Unsigned(s) == IF s # <<>> /\ Head(s) \in {"-", "+"} THEN Tail(s) ELSE s
IsNumeric(s) == IsDigits(Unsigned(s))
ValueOf(s) ==
    IF Head(s) = "-" THEN 0 - DigitsToNat(0, Unsigned(s))
    ELSE DigitsToNat(0, Unsigned(s))

\* the row a record was read from
RowOfRecord(i) == NthWithAssetId(RowsOfCandidate(FirstYielding), i)

\* C23: each text field of a record is the trimmed cell of the first alias
\* of the field, in priority order and matched to the row's headers without
\* regard to case, whose cell is non-empty, and the empty text when no alias
\* has one; a numeric field is the number read from that text, and 0 when
\* the text is absent or not a number.
C23_ColumnLookup ==
    Resolved =>
        \A i \in DOMAIN parsed[1].campaignData :
            /\ \A f \in TextFields :
                  parsed[1].campaignData[i][f[1]] = FieldOf(RowOfRecord(i), f[2])
            /\ \A f \in NumFields :
                  parsed[1].campaignData[i][f[1]]
                    = (IF IsNumeric(FieldOf(RowOfRecord(i), f[2]))
                       THEN ValueOf(FieldOf(RowOfRecord(i), f[2])) ELSE 0)

\* a record took a name from a later alias because the cell of the first
\* alias was empty, and a numeric field of it is 0 for a text that is no number
C23_Witness ==
    /\ Resolved
    /\ \E i \in DOMAIN parsed[1].campaignData :
          /\ HeadersOf(RowOfRecord(i), K_campaignName[1]) # {}
          /\ ~NonEmptyCell(CellOf(RowOfRecord(i), K_campaignName[1]))
          /\ parsed[1].campaignData[i].campaignName = C1n
          /\ FieldOf(RowOfRecord(i), K_ctr) # <<>>
          /\ parsed[1].campaignData[i].ctr = 0

(***************************************************************************)
(* Competitive view: expanding and collapsing group cards                  *)
(* (ABTestView.tsx:41-42, 187-220, 346-355).                               *)
(***************************************************************************)

\* ABTestView.tsx:187-194: the cards shown, in the order of abTestGroups;
\* the sort of lines 196-207 only permutes them.
filteredGroupsOf(groups, onlyTests) ==
    IF onlyTests
    THEN SelectSeq(groups, LAMBDA g : Len(g.creatives) >= 2)
    ELSE groups

filteredGroups == filteredGroupsOf(abTestGroups, showOnlyABTests)

\* ABTestView.tsx:347: the React key that identifies a card.
cardKey(group) == <<group.targetType, group.target, group.matchType>>

\* ABTestView.tsx:350: isExpanded={expandedGroups.has(group.target)}
isExpanded(group, expanded) == group.target \in expanded

\* ABTestView.tsx:212-220
Toggled(expanded, target) ==
    IF target \in expanded THEN expanded \ {target} ELSE expanded \cup {target}

\* ABTestView.tsx:351: onToggle={() => toggleGroup(group.target)} of a card
\* that is shown.
toggleGroup(target) ==
    /\ expandedGroups' = Toggled(expandedGroups, target)
    /\ UNCHANGED <<assets, campaignData, error, warnings, inflight, hist,
                   abGroupBy, perfGroupBy, showOnlyABTests, file, parsed>>
    /\ UNCHANGED storeVars

\* ABTestView.tsx:317: the "Only show A/B tests" checkbox.
setShowOnlyABTests(checked) ==
    /\ showOnlyABTests' = checked
    /\ UNCHANGED <<assets, campaignData, error, warnings, inflight, hist,
                   abGroupBy, perfGroupBy, expandedGroups, file, parsed>>
    /\ UNCHANGED storeVars

\* One keyword text under two match types, the first with two creatives.
ExpandPool ==
    { [BaseRec EXCEPT !.keywordText = K1, !.matchType = m[1],
                      !.videoAssetIds = m[2], !.impressions = 1, !.spend = 1] :
        m \in { <<T_Exact, V1>>, <<T_Exact, V2>>, <<T_Broad, V1>> } }

InitExpand ==
    /\ campaignData \in SeqsUpTo(ExpandPool, MaxRecords)
    /\ assets = <<>>
    /\ InitRest

NextExpand ==
    \/ \E g \in GroupByTargets : SetGroupBy(g)
    \/ \E checked \in BOOLEAN : setShowOnlyABTests(checked)
    \/ \E i \in DOMAIN filteredGroups : toggleGroup(filteredGroups[i].target)

SpecExpand == InitExpand /\ [][NextExpand]_vars

\* The step is a click on the card of group i.
CardToggled(i) ==
    /\ expandedGroups' = Toggled(expandedGroups, filteredGroups[i].target)
    /\ UNCHANGED <<campaignData, assets, abGroupBy, showOnlyABTests>>

\* C29: a click on one group card expands or collapses that card and leaves
\* every other card shown as it was.
C29_ToggleOneCard ==
    [][ \A i \in DOMAIN filteredGroups :
          CardToggled(i) =>
            /\ isExpanded(filteredGroups[i], expandedGroups')
                 = ~isExpanded(filteredGroups[i], expandedGroups)
            /\ \A j \in DOMAIN filteredGroups :
                 cardKey(filteredGroups[j]) # cardKey(filteredGroups[i]) =>
                   isExpanded(filteredGroups[j], expandedGroups')
                     = isExpanded(filteredGroups[j], expandedGroups) ]_vars

\* The part of C29 that holds: cards of another target keep their state.
ToggleKeepsOtherTargets ==
    [][ \A i \in DOMAIN filteredGroups :
          CardToggled(i) =>
            \A j \in DOMAIN filteredGroups :
              filteredGroups[j].target # filteredGroups[i].target =>
                isExpanded(filteredGroups[j], expandedGroups')
                  = isExpanded(filteredGroups[j], expandedGroups) ]_vars

(***************************************************************************)
(* Placeholder assets and the views' asset lookup                          *)
(* (parseExcel.ts:78-97, PerformanceDashboard.tsx:63, ABTestView.tsx:110). *)
(***************************************************************************)

\* assetMap.get(campaign.videoAssetIds) over the assets of the parse finds
\* an asset for record i
RecordResolves(i) ==
    assetMapGet(parsed[1].brandAssets, parsed[1].campaignData[i].videoAssetIds) # <<>>

PlaceholdersMade == Resolved /\ FallbackCase /\ parsed[1].brandAssets # <<>>

\* C30: after placeholder assets were synthesized, the lookup of every
\* performance record's videoAssetIds among the assets finds an asset, also
\* for a record whose videoAssetIds lists several ids separated by commas.
C30_PlaceholdersResolveRecords ==
    PlaceholdersMade => \A i \in DOMAIN parsed[1].campaignData : RecordResolves(i)

\* The part of C30 that holds: a record whose videoAssetIds is one id, with
\* no comma in it, resolves to its placeholder.
SingleIdRecordsResolve ==
    PlaceholdersMade =>
        \A i \in DOMAIN parsed[1].campaignData :
            IdsNamedBy(parsed[1].campaignData[i].videoAssetIds)
                = { parsed[1].campaignData[i].videoAssetIds }
              => RecordResolves(i)

(***************************************************************************)
(* Label edits while an upload is in flight (App.tsx:51-110, 112-127).     *)
(***************************************************************************)

\* Asset j of the set in memory when the upload completed was edited after
\* the upload had started (edits keep the list's length and order).
EditedInFlight(j) == hist.before[j] # hist.seen[j]

\* C24: a label edit made while an upload's parse is in flight is not lost:
\* after the upload has completed, the asset of the new set with the edited
\* asset's id carries the edited creativeName and category.
C24_InFlightEditKept ==
    UploadSucceeded =>
        \A j \in DOMAIN hist.before : \A i \in DOMAIN assets :
            (EditedInFlight(j) /\ assets[i].assetId = hist.before[j].assetId) =>
                /\ assets[i].creativeName = hist.before[j].creativeName
                /\ assets[i].category = hist.before[j].category

(***************************************************************************)
(* Signing in and the load of saved data                                   *)
(* (AuthContext part_004:23-41, 77; App.tsx:37-49;                         *)
(*  useDataPersistence.ts:133-203).                                        *)
(***************************************************************************)

\* useDataPersistence.ts:160-168 (thumbnails are not part of the model)
FromDbAsset(row) ==
    [ assetType |-> row.asset_type,
      assetId |-> row.asset_id,
      assetName |-> row.asset_name,
      assetUrl |-> row.asset_url,
      creativeName |-> IF row.creative_name # <<>> THEN row.creative_name[1] ELSE <<>>,
      category |-> IF row.category # <<>> THEN row.category[1] ELSE <<>> ]

\* useDataPersistence.ts:170-194
FromDbCampaign(row) ==
    [ campaignId |-> row.campaign_id,
      adGroupId |-> row.ad_group_id,
      adId |-> row.ad_id,
      keywordId |-> row.keyword_id,
      productTargetingId |-> row.product_targeting_id,
      productTargetingExpression |-> row.product_targeting_expression,
      campaignName |-> row.campaign_name,
      adGroupName |-> row.ad_group_name,
      adName |-> row.ad_name,
      keywordText |-> row.keyword_text,
      matchType |-> row.match_type,
      videoAssetIds |-> row.video_asset_ids,
      impressions |-> row.impressions,
      clicks |-> row.clicks,
      spend |-> row.spend,
      sales |-> row.sales,
      orders |-> row.orders,
      units |-> row.units,
      ctr |-> row.ctr,
      conversionRate |-> row.conversion_rate,
      acos |-> row.acos,
      cpc |-> row.cpc,
      roas |-> row.roas ]

FromDbAssets(rows) == [ i \in DOMAIN rows |-> FromDbAsset(rows[i]) ]
FromDbCampaigns(rows) == [ i \in DOMAIN rows |-> FromDbCampaign(rows[i]) ]

\* useDataPersistence.ts:133-146: a loadData call, suspended at its first
\* request
loadData == Append(ops, Op("loadAssets", <<>>, <<>>, "loadEffect", <<>>, NoUpdates))

\* part_004:39-41 setUser(session.user) makes isAuthenticated true; the
\* effect of App.tsx:37-49 then runs with the assets of that render.  The
\* handleFileUpload of earlier renders stays (its deps are [assets]).
SignIn ==
    /\ ~isAuthenticated
    /\ assets = <<>> => Len(ops) < MaxOps
    /\ isAuthenticated' = TRUE
    /\ ops' = IF assets = <<>> THEN loadData ELSE ops
    /\ hist' = [op |-> "signIn", before |-> <<>>, seen |-> <<>>, file |-> <<>>]
    /\ UNCHANGED <<assets, campaignData, error, warnings, inflight, abGroupBy,
                   perfGroupBy, viewState, file, parsed, uploadAuth, saveStatus,
                   showAuthModal, timers, store, faults, isSaving, lastSave>>

\* App.tsx:39-47: the then-callback of the effect, given what loadData
\* returned
LoadReturns(k, savedAssets, savedCampaigns) ==
    /\ ops' = Remove(ops, k)
    /\ IF savedAssets # <<>> \/ savedCampaigns # <<>>
       THEN /\ assets' = savedAssets
            /\ campaignData' = savedCampaigns
            /\ uploadAuth' = isAuthenticated
       ELSE UNCHANGED <<assets, campaignData, uploadAuth>>
    /\ hist' = [op |-> "loaded", before |-> assets, seen |-> <<>>, file |-> <<>>]
    /\ UNCHANGED <<error, warnings, inflight, abGroupBy, perfGroupBy, viewState,
                   file, parsed, isAuthenticated, saveStatus, showAuthModal,
                   timers, store, isSaving, lastSave>>

\* useDataPersistence.ts:144-150: the select on brand_assets; an error is
\* thrown and caught at 197-199, which returns empty lists
LoadAssets(k, ok) ==
    /\ ops[k].pc = "loadAssets"
    /\ Answer(ok)
    /\ IF ok
       THEN /\ ops' = [ops EXCEPT ![k] = [@ EXCEPT !.pc = "loadCampaigns",
                                                  !.assets = FromDbAssets(store.assets)]]
            /\ UNCHANGED <<store, saveStatus, timers, isSaving, lastSave>>
            /\ AppUnchanged
       ELSE LoadReturns(k, <<>>, <<>>)

\* useDataPersistence.ts:152-196: the select on campaign_data and the return
LoadCampaigns(k, ok) ==
    /\ ops[k].pc = "loadCampaigns"
    /\ Answer(ok)
    /\ IF ok
       THEN LoadReturns(k, ops[k].assets, FromDbCampaigns(store.campaigns))
       ELSE LoadReturns(k, <<>>, <<>>)

NextLoad ==
    \/ \E k \in DOMAIN ops, ok \in BOOLEAN : LoadAssets(k, ok)
    \/ \E k \in DOMAIN ops, ok \in BOOLEAN : LoadCampaigns(k, ok)

\* The application as it starts: nothing in memory, nobody signed in, the
\* store as an earlier session left it.
InitLogin ==
    /\ assets = <<>>
    /\ campaignData = <<>>
    /\ error = <<>>
    /\ warnings = <<>>
    /\ inflight = <<>>
    /\ hist = [op |-> "init", before |-> <<>>, seen |-> <<>>, file |-> <<>>]
    /\ file = <<>>
    /\ parsed = <<>>
    /\ abGroupBy = "adgroup"
    /\ perfGroupBy = "creative"
    /\ expandedGroups = {}
    /\ showOnlyABTests = TRUE
    /\ isAuthenticated = FALSE
    /\ uploadAuth = FALSE
    /\ saveStatus = "idle"
    /\ showAuthModal = FALSE
    /\ timers = 0
    /\ store \in { [assets |-> ToDbAssets(a), campaigns |-> Batch(c, 0)] :
                     a \in StoreAssetLists, c \in SeqsUpTo({StoreRec}, 1) }
    /\ ops = <<>>
    /\ faults = 0
    /\ isSaving = FALSE
    /\ lastSave = <<>>

NextLogin ==
    \/ SignIn
    \/ NextLoad
    \/ \E f \in StoreFiles : StartUpload(f)
    \/ FinishUpload
    \/ NextSave

SpecLogin == InitLogin /\ [][NextLogin]_vars

\* The step is the return of the load started by the sign-in.
LoadReturned ==
    \E k \in DOMAIN ops : ops[k].caller = "loadEffect" /\ ops' = Remove(ops, k)

\* C25: the load started at sign-in replaces the assets and the performance
\* records in memory only if both are still empty when it completes: data
\* put there by an upload that completed meanwhile is not overwritten.
C25_LoadKeepsUploadedData ==
    [][ (LoadReturned /\ (assets # <<>> \/ campaignData # <<>>))
            => UNCHANGED <<assets, campaignData>> ]_vars

\* The part of C25 that holds: the load never empties the memory.
LoadNeverEmpties ==
    [][ LoadReturned => (assets' # <<>> \/ campaignData' # <<>>
                           \/ (assets = <<>> /\ campaignData = <<>>)) ]_vars

\* The step is the completion of an upload that was accepted.
UploadCompleted == inflight # <<>> /\ inflight' = <<>> /\ hist'.op = "uploadOk"

\* C26: an upload that completes while the user is signed in and yields at
\* least one asset or performance record starts a save of the new data, also
\* when the user signed in after the start and the assets have not changed
\* since.
C26_AuthenticatedUploadSaves ==
    [][ (UploadCompleted /\ isAuthenticated
           /\ (assets' # <<>> \/ campaignData' # <<>>))
            => ops' = saveData(assets', campaignData', "handleFileUpload") ]_vars

\* The part of C26 that holds: the save is started when the handler was
\* created in a render that saw the user signed in.
UploadSavesWhenHandlerSawAuth ==
    [][ (UploadCompleted /\ inflight[1].auth
           /\ (assets' # <<>> \/ campaignData' # <<>>))
            => ops' = saveData(assets', campaignData', "handleFileUpload") ]_vars

(***************************************************************************)
(* Saves that overlap (useDataPersistence.ts:57-123, App.tsx:95-98).       *)
(***************************************************************************)

\* No call is in flight and a save has returned.
SavesFinished == ops = <<>> /\ lastSave # <<>>

\* The store's rows of the user are the data in memory.  Under SpecUpload
\* every save is the auto-save of the upload that put the data in memory,
\* so the data in memory is the data of the save that was started last.
StoreIsMemory ==
    /\ SameRows(store.assets, ToDbAssets(assets))
    /\ SameRows(store.campaigns, ToDbCampaigns(campaignData))

\* C27: when two saves of the user have overlapped and both have finished,
\* the store's rows are exactly the data of the save that was started last:
\* no row of the earlier save remains and no performance row is duplicated
\* (stated for runs in which the store has answered no request with an
\* error).
C27_LastStartedSaveWins ==
    (SavesFinished /\ lastSave[1].overlapped /\ faults = 0) => StoreIsMemory

\* The same for saves that did not overlap, which holds.
SaveAloneWins ==
    (SavesFinished /\ ~lastSave[1].overlapped /\ faults = 0) => StoreIsMemory

\* While two saves are in flight the one started last carries the data in
\* memory.
LastStartedCarriesMemory ==
    Len(ops) = 2 => ops[2].assets = assets /\ ops[2].campaignData = campaignData

(***************************************************************************)
(* Label updates and saves (App.tsx:112-127,                               *)
(* useDataPersistence.ts:57-81, 206-230).                                  *)
(***************************************************************************)

NextLabels ==
    \/ handleSave
    \/ \E id \in AssetIdPool, u \in UpdatePool : handleUpdateAsset(id, u)
    \/ NextSave
    \/ \E k \in DOMAIN ops, ok \in BOOLEAN : UpdateLabels(k, ok)
    \/ SaveStatusTimeout

SpecLabels == InitStore /\ [][NextLabels]_vars

\* Every asset in memory that has a row in the store has its creativeName
\* and category there.
StoreLabelsAreMemory ==
    \A i \in DOMAIN assets : \A j \in DOMAIN store.assets :
        store.assets[j].asset_id = assets[i].assetId =>
            /\ store.assets[j].creative_name = ToDbAsset(assets[i]).creative_name
            /\ store.assets[j].category = ToDbAsset(assets[i]).category

\* Nothing is in flight, a save has returned with success, and no request
\* was answered with an error.
AllSent == ops = <<>> /\ lastSave # <<>> /\ lastSave[1].success /\ faults = 0

\* C28: a label update sent while a save of the user is in flight is not
\* lost: once both have finished, the store's creativeName and category of
\* the asset are the values in memory.
C28_LabelUpdateDuringSaveKept ==
    (AllSent /\ hist.op = "labelsSentDuringSave") => StoreLabelsAreMemory

====
